---- MODULE Spec2Model ----
(***************************************************************************)
(* Model of the md-to-docx document automation core: placeholder           *)
(* extraction (src/src/template_parser.py, src/src/models.py), the mapping *)
(* engine (src/src/llm_content_mapper.py, src/llm/vllm_client.py), the     *)
(* markdown block model (src/src/markdown_parser.py) and the composer      *)
(* (src/src/docx_composer.py); the style mapper (src/src/style_mapper.py), *)
(* the template analyzers (src/src/template_analyzer.py,                   *)
(* src/src/template_page_analyzer.py) and the files a conversion writes.   *)
(*                                                                         *)
(* Text is a sequence of one-character strings.  Confidence values are in  *)
(* tenths (7 stands for 0.7).                                              *)
(***************************************************************************)
EXTENDS Integers, Sequences, FiniteSets, TLC

VARIABLES
    pc,                  \* position of the running operation
    placeholder_pattern, \* PipelineConfig.placeholder_pattern
    paragraphs,          \* body paragraphs of the template / output document
    headers,             \* header and footer paragraphs of the document
    placeholders,        \* ParsedTemplate.placeholders
    raw_blocks,          \* DocumentStructure.raw_blocks
    doc_info,            \* DocumentStructure title / subtitle / sections
    use_llm,             \* LLMContentMapper.use_llm (and a client exists)
    requests,            \* POSTs sent to /chat/completions in this call
    llm_content,         \* what the transport handed back (0 or 1 element)
    raised,              \* exception caught by _create_mapping_with_llm
    result,              \* value returned by the operation (0 or 1 element)
    styles,              \* TemplateStructure.styles, in style-table order
    style_cache,         \* StyleMapper.style_cache
    lookups,             \* searches of the style table made by the mapper
    returned,            \* last _get_style call: key, style (0 or 1 element)
    template_doc,        \* TemplatePageAnalyzer.doc: paragraphs and styles
    page_structure,      \* TemplatePageStructure (0 or 1 element)
    package,             \* the template as an OPC package (zip)
    styles_part,         \* part parsed into _styles_xml (0 or 1 element)
    conv,                \* per conversion: position, paths written
    fs,                  \* filesystem: the writes made, in order
    inherit              \* _resolve_style_inheritance: table and position

PipelineVars == <<pc, placeholder_pattern, paragraphs, headers, placeholders,
                  raw_blocks, doc_info, use_llm, requests, llm_content, raised,
                  result>>
StyleVars == <<styles, style_cache, lookups, returned>>
PageVars == <<template_doc, page_structure>>
PackageVars == <<package, styles_part>>
BatchVars == <<conv, fs>>
InheritVars == <<inherit>>
AnalysisVars == <<StyleVars, PageVars, PackageVars, BatchVars, InheritVars>>

vars == <<PipelineVars, AnalysisVars>>

\* nothing analysed, nothing resolved, nothing written
IdleStyle == styles = <<>> /\ style_cache = <<>> /\ lookups = 0 /\ returned = <<>>
IdlePage == template_doc = <<>> /\ page_structure = <<>>
IdlePackage == package = <<>> /\ styles_part = <<>>
IdleBatch == conv = <<>> /\ fs = <<>>
IdleInherit == inherit = <<>>
IdleAnalysis == IdleStyle /\ IdlePage /\ IdlePackage /\ IdleBatch /\ IdleInherit

----------------------------------------------------------------------------
(* Bounds *)

MaxPlaceholders == 2
MaxBlocks == 3
MaxPieces == 2

----------------------------------------------------------------------------
(* Characters and text helpers *)

UpperChars == {"A","B","C","D","E","G","H","I","L","M","N","O","R","S","T","U","V","X","Y"}
DigitChars == {"0","1","2"}
IdentChars == UpperChars \cup {"_"}

RECURSIVE Concat(_)
Concat(ss) == IF ss = <<>> THEN <<>> ELSE Head(ss) \o Concat(Tail(ss))

StartsWith(s, p) == Len(s) >= Len(p) /\ SubSeq(s, 1, Len(p)) = p

\* Python: needle in haystack
Contains(haystack, needle) ==
    \E i \in 0..(Len(haystack) - Len(needle)) :
        SubSeq(haystack, i + 1, i + Len(needle)) = needle

\* Python: str.upper(), character by character
UpperChar(c) ==
    CASE c = "b" -> "B"
      [] c = "o" -> "O"
      [] c = "d" -> "D"
      [] c = "y" -> "Y"
      [] OTHER -> c

Upper(s) == [i \in 1..Len(s) |-> UpperChar(s[i])]

RECURSIVE LStrip(_, _)
LStrip(s, cs) ==
    IF s # <<>> /\ Head(s) \in cs THEN LStrip(Tail(s), cs) ELSE s

RECURSIVE RStrip(_, _)
RStrip(s, cs) ==
    IF s # <<>> /\ s[Len(s)] \in cs THEN RStrip(SubSeq(s, 1, Len(s) - 1), cs) ELSE s

\* Python: s.strip(chars) removes leading and trailing characters in chars
Strip(s, cs) == RStrip(LStrip(s, cs), cs)

DigitVal(c) == CASE c = "0" -> 0 [] c = "1" -> 1 [] c = "2" -> 2

\* Python: int(digits)
RECURSIVE ToInt(_)
ToInt(ds) ==
    IF ds = <<>> THEN 0 ELSE 10 * ToInt(SubSeq(ds, 1, Len(ds) - 1)) + DigitVal(ds[Len(ds)])

\* length of the longest prefix of s made of characters in cs (greedy run)
RECURSIVE RunLen(_, _)
RunLen(s, cs) ==
    IF s # <<>> /\ Head(s) \in cs THEN 1 + RunLen(Tail(s), cs) ELSE 0

----------------------------------------------------------------------------
(* src/src/models.py : PlaceholderType, PLACEHOLDER_PATTERNS,              *)
(* PLACEHOLDER_TYPE_MAP, parse_placeholder_id                              *)

ID_TITLE == <<"T","I","T","L","E">>
ID_SUBTITLE == <<"S","U","B","T","I","T","L","E">>
ID_DATE == <<"D","A","T","E">>
ID_AUTHOR == <<"A","U","T","H","O","R">>
ID_TOC == <<"T","O","C">>
ID_BODY == <<"B","O","D","Y">>
ID_IMAGE == <<"I","M","A","G","E">>
ID_COVER_IMAGE == <<"C","O","V","E","R","_","I","M","A","G","E">>
ID_SECTION_ == <<"S","E","C","T","I","O","N","_">>
ID_SECTION_1 == ID_SECTION_ \o <<"1">>
ID_SECTION_2 == ID_SECTION_ \o <<"2">>
ID_NOTE == <<"N","O","T","E">>

PatternNames == {"default", "bracket", "angle", "underscore"}

\* opening and closing delimiter of each entry of PLACEHOLDER_PATTERNS
PatternOpen(name) ==
    CASE name = "default" -> <<"{","{">>
      [] name = "bracket" -> <<"[","[">>
      [] name = "angle" -> <<"<","<">>
      [] name = "underscore" -> <<"_","_","_">>

PatternClose(name) ==
    CASE name = "default" -> <<"}","}">>
      [] name = "bracket" -> <<"]","]">>
      [] name = "angle" -> <<">",">">>
      [] name = "underscore" -> <<"_","_","_">>

\* a parser that compiles PLACEHOLDER_PATTERNS["default"] whatever the key
PatternFor_AlwaysDefault(key) == "default"

\* PLACEHOLDER_PATTERNS.get(placeholder_pattern, PLACEHOLDER_PATTERNS["default"])
PatternFor(key) == IF key \in PatternNames THEN key ELSE "default"

\* PLACEHOLDER_TYPE_MAP.get(clean_id, PlaceholderType.CUSTOM)
PLACEHOLDER_TYPE_MAP(clean_id) ==
    CASE clean_id = ID_TITLE -> "title"
      [] clean_id = ID_SUBTITLE -> "subtitle"
      [] clean_id = ID_DATE -> "date"
      [] clean_id = ID_AUTHOR -> "author"
      [] clean_id = ID_TOC -> "toc"
      [] clean_id = ID_BODY -> "body"
      [] clean_id = ID_IMAGE -> "image"
      [] clean_id = ID_COVER_IMAGE -> "image"
      [] OTHER -> "custom"

\* section_number None is modelled as 0 (the mapper reads `section_number or 1`)
NoSection == 0

\* re.match(r"SECTION_(\d+)", clean_id): anchored at the start only
SectionDigits(clean_id) ==
    IF StartsWith(clean_id, ID_SECTION_)
    THEN SubSeq(clean_id, Len(ID_SECTION_) + 1,
                Len(ID_SECTION_) + RunLen(SubSeq(clean_id, Len(ID_SECTION_) + 1, Len(clean_id)), DigitChars))
    ELSE <<>>

parse_placeholder_id(placeholder_id) ==
    LET clean_id == Strip(placeholder_id, {"{", "}"})
        digits == SectionDigits(clean_id)
    IN  IF digits # <<>>
        THEN [ptype |-> "section", section_number |-> ToInt(digits)]
        ELSE [ptype |-> PLACEHOLDER_TYPE_MAP(clean_id), section_number |-> NoSection]

----------------------------------------------------------------------------
(* The regular expression of PLACEHOLDER_PATTERNS[name],                   *)
(*     OPEN ( [A-Z_]+ (?:_\d+)? ) CLOSE                                    *)
(* matched the way Python's backtracking engine matches it: [A-Z_]+ and    *)
(* \d+ are greedy, the optional group is tried before it is skipped.       *)

\* with [A-Z_]+ taking k characters and the group taking "_" and d digits
RECURSIVE TryDigits(_, _, _, _)
TryDigits(rest, k, d, close) ==
    IF d = 0 THEN 0
    ELSE IF StartsWith(SubSeq(rest, k + d + 2, Len(rest)), close)
         THEN k + 1 + d
         ELSE TryDigits(rest, k, d - 1, close)

TryGroup(rest, k, close) ==
    LET after == SubSeq(rest, k + 1, Len(rest))
        withDigits ==
            IF after # <<>> /\ Head(after) = "_"
            THEN TryDigits(rest, k, RunLen(Tail(after), DigitChars), close)
            ELSE 0
    IN  IF withDigits > 0 THEN withDigits
        ELSE IF StartsWith(after, close) THEN k ELSE 0

RECURSIVE TryIdent(_, _, _)
TryIdent(rest, k, close) ==
    IF k = 0 THEN 0
    ELSE LET g == TryGroup(rest, k, close)
         IN  IF g > 0 THEN g ELSE TryIdent(rest, k - 1, close)

\* length of group(1) of a match starting at 1-based position p, 0 if none
GroupLenAt(text, p, name) ==
    LET open == PatternOpen(name)
        tail == SubSeq(text, p, Len(text))
        rest == SubSeq(tail, Len(open) + 1, Len(tail))
    IN  IF StartsWith(tail, open)
        THEN TryIdent(rest, RunLen(rest, IdentChars), PatternClose(name))
        ELSE 0

\* regex.finditer(text): leftmost, non-overlapping matches, in order
RECURSIVE FindIterFrom(_, _, _)
FindIterFrom(text, p, name) ==
    IF p > Len(text) THEN <<>>
    ELSE LET g == GroupLenAt(text, p, name)
             total == Len(PatternOpen(name)) + g + Len(PatternClose(name))
         IN  IF g > 0
             THEN << [start |-> p - 1,
                      group0 |-> SubSeq(text, p, p + total - 1),
                      group1 |-> SubSeq(text, p + Len(PatternOpen(name)),
                                        p + Len(PatternOpen(name)) + g - 1)] >>
                  \o FindIterFrom(text, p + total, name)
             ELSE FindIterFrom(text, p + 1, name)

FindIter(text, name) == FindIterFrom(text, 1, name)

----------------------------------------------------------------------------
(* src/src/template_parser.py : TemplateParser                             *)

\* a paragraph is a sequence of runs, a run is its text; paragraph.text
ParagraphText(paragraph) == Concat(paragraph)

RECURSIVE FindRunIndexFrom(_, _, _, _)
FindRunIndexFrom(paragraph, char_pos, run_idx, current_pos) ==
    IF run_idx > Len(paragraph) THEN 0
    ELSE IF current_pos + Len(paragraph[run_idx]) > char_pos THEN run_idx - 1
    ELSE FindRunIndexFrom(paragraph, char_pos, run_idx + 1,
                          current_pos + Len(paragraph[run_idx]))

_find_run_index(paragraph, char_pos) == FindRunIndexFrom(paragraph, char_pos, 1, 0)

\* one Placeholder per regex match; the type is parsed from the raw token
_extract_from_paragraph(paragraph, para_idx, pattern) ==
    LET text == ParagraphText(paragraph)
        matches == FindIter(text, pattern)
    IN  [k \in 1..Len(matches) |->
            LET raw_id == matches[k].group0
                parsed == parse_placeholder_id(raw_id)
            IN  [id |-> raw_id,
                 placeholder_type |-> parsed.ptype,
                 section_type |-> "body",
                 paragraph_index |-> para_idx,
                 run_index |-> _find_run_index(paragraph, matches[k].start),
                 section_number |-> parsed.section_number]]

_classify_placeholders(phs) ==
    [k \in 1..Len(phs) |->
        [phs[k] EXCEPT !.section_type =
            IF phs[k].placeholder_type \in {"title", "subtitle"} THEN "cover"
            ELSE IF phs[k].placeholder_type = "toc" THEN "toc"
            ELSE "body"]]

RECURSIVE ExtractAll(_, _, _)
ExtractAll(paras, from, pattern) ==
    IF from > Len(paras) THEN <<>>
    ELSE _extract_from_paragraph(paras[from], from - 1, pattern)
         \o ExtractAll(paras, from + 1, pattern)

\* TemplateParser(docx_path, placeholder_pattern).parse().placeholders:
\* body paragraphs first, then header and footer paragraphs
TemplateParser_parse(body, hdrs, key) ==
    _classify_placeholders(ExtractAll(body, 1, PatternFor(key))
                           \o ExtractAll(hdrs, 1, PatternFor(key)))

----------------------------------------------------------------------------
(* src/src/llm_content_mapper.py : rule-based mapping                      *)

IsHeading(block, lvl) == block.block_type = "heading" /\ block.level = lvl

\* TITLE branch: first unused level-1 heading
RECURSIVE TitleIndices(_, _, _)
TitleIndices(blocks, used, i) ==
    IF i >= Len(blocks) THEN <<>>
    ELSE IF i \in used THEN TitleIndices(blocks, used, i + 1)
    ELSE IF IsHeading(blocks[i + 1], 1) THEN <<i>>
    ELSE TitleIndices(blocks, used, i + 1)

\* SUBTITLE branch: stops at the first unused block that is a level-2
\* heading or a paragraph
RECURSIVE SubtitleIndices(_, _, _)
SubtitleIndices(blocks, used, i) ==
    IF i >= Len(blocks) THEN <<>>
    ELSE IF i \in used THEN SubtitleIndices(blocks, used, i + 1)
    ELSE IF IsHeading(blocks[i + 1], 2) THEN <<i>>
    ELSE IF blocks[i + 1].block_type = "paragraph" THEN <<i>>
    ELSE SubtitleIndices(blocks, used, i + 1)

\* BODY branch without the `if i in used_indices: continue` test
RECURSIVE BodyIndices_IgnoresUsed(_, _, _, _)
BodyIndices_IgnoresUsed(blocks, used, i, skip_first_heading) ==
    IF i >= Len(blocks) THEN <<>>
    ELSE IF skip_first_heading /\ blocks[i + 1].block_type = "heading"
            /\ blocks[i + 1].level <= 2
         THEN BodyIndices_IgnoresUsed(blocks, used, i + 1, FALSE)
    ELSE <<i>> \o BodyIndices_IgnoresUsed(blocks, used, i + 1, skip_first_heading)

\* BODY branch: every unused block except the first unused heading of level <= 2
RECURSIVE BodyIndices(_, _, _, _)
BodyIndices(blocks, used, i, skip_first_heading) ==
    IF i >= Len(blocks) THEN <<>>
    ELSE IF i \in used THEN BodyIndices(blocks, used, i + 1, skip_first_heading)
    ELSE IF skip_first_heading /\ blocks[i + 1].block_type = "heading"
            /\ blocks[i + 1].level <= 2
         THEN BodyIndices(blocks, used, i + 1, FALSE)
    ELSE <<i>> \o BodyIndices(blocks, used, i + 1, skip_first_heading)

\* SECTION branch that leaves the section's own heading out
RECURSIVE SectionIndices_ExcludesHeading(_, _, _, _, _, _)
SectionIndices_ExcludesHeading(blocks, used, i, section_num, current_section, in_section) ==
    IF i >= Len(blocks) THEN <<>>
    ELSE IF i \in used
         THEN SectionIndices_ExcludesHeading(blocks, used, i + 1, section_num,
                                             current_section, in_section)
    ELSE IF IsHeading(blocks[i + 1], 2)
         THEN IF current_section + 1 > section_num THEN <<>>
              ELSE SectionIndices_ExcludesHeading(blocks, used, i + 1, section_num,
                       current_section + 1, current_section + 1 = section_num)
    ELSE IF in_section
         THEN <<i>> \o SectionIndices_ExcludesHeading(blocks, used, i + 1, section_num,
                                                      current_section, in_section)
    ELSE SectionIndices_ExcludesHeading(blocks, used, i + 1, section_num,
                                        current_section, in_section)

\* SECTION branch: level-2 headings among the unused blocks delimit sections
RECURSIVE SectionIndices(_, _, _, _, _, _)
SectionIndices(blocks, used, i, section_num, current_section, in_section) ==
    IF i >= Len(blocks) THEN <<>>
    ELSE IF i \in used
         THEN SectionIndices(blocks, used, i + 1, section_num, current_section, in_section)
    ELSE IF IsHeading(blocks[i + 1], 2)
         THEN IF current_section + 1 = section_num
              THEN <<i>> \o SectionIndices(blocks, used, i + 1, section_num,
                                           current_section + 1, TRUE)
              ELSE IF current_section + 1 > section_num THEN <<>>
              ELSE SectionIndices(blocks, used, i + 1, section_num,
                                  current_section + 1, FALSE)
    ELSE IF in_section
         THEN <<i>> \o SectionIndices(blocks, used, i + 1, section_num,
                                      current_section, in_section)
    ELSE SectionIndices(blocks, used, i + 1, section_num, current_section, in_section)

ContentMapping(pid, indices) ==
    [placeholder_id |-> pid, content_block_indices |-> indices, transformation |-> "none"]

\* _auto_map_placeholder returns <<>> for None, <<mapping>> otherwise;
\* first, a variant without the TOC branch
_auto_map_placeholder_TocUnmapped(placeholder, blocks, used_indices) ==
    LET ptype == placeholder.placeholder_type
        indices ==
            CASE ptype = "title" -> TitleIndices(blocks, used_indices, 0)
              [] ptype = "subtitle" -> SubtitleIndices(blocks, used_indices, 0)
              [] ptype = "body" -> BodyIndices(blocks, used_indices, 0, TRUE)
              [] ptype = "section" ->
                    SectionIndices(blocks, used_indices, 0,
                        IF placeholder.section_number = NoSection THEN 1
                        ELSE placeholder.section_number,
                        0, FALSE)
              [] OTHER -> <<>>
    IN  IF indices # <<>> THEN << ContentMapping(placeholder.id, indices) >>
        ELSE <<>>

_auto_map_placeholder(placeholder, blocks, used_indices) ==
    LET ptype == placeholder.placeholder_type
        indices ==
            CASE ptype = "title" -> TitleIndices(blocks, used_indices, 0)
              [] ptype = "subtitle" -> SubtitleIndices(blocks, used_indices, 0)
              [] ptype = "body" -> BodyIndices(blocks, used_indices, 0, TRUE)
              [] ptype = "section" ->
                    SectionIndices(blocks, used_indices, 0,
                        IF placeholder.section_number = NoSection THEN 1
                        ELSE placeholder.section_number,
                        0, FALSE)
              [] OTHER -> <<>>
    IN  IF ptype = "toc" THEN << ContentMapping(placeholder.id, <<>>) >>
        ELSE IF indices # <<>> THEN << ContentMapping(placeholder.id, indices) >>
        ELSE <<>>

SeqToSet(s) == {s[k] : k \in 1..Len(s)}

\* the loop over template.placeholders: accumulates mappings and used_indices
RECURSIVE MapPlaceholders(_, _, _, _)
MapPlaceholders(phs, blocks, mappings, used_indices) ==
    IF phs = <<>> THEN [mappings |-> mappings, used_indices |-> used_indices]
    ELSE LET mapping == _auto_map_placeholder(Head(phs), blocks, used_indices)
         IN  IF mapping # <<>>
             THEN MapPlaceholders(Tail(phs), blocks, mappings \o mapping,
                      used_indices \cup SeqToSet(mapping[1].content_block_indices))
             ELSE MapPlaceholders(Tail(phs), blocks, mappings, used_indices)

\* [i for i in range(total_blocks) if i not in used_indices]
RECURSIVE UnmappedFrom(_, _, _)
UnmappedFrom(total_blocks, used_indices, i) ==
    IF i >= total_blocks THEN <<>>
    ELSE IF i \in used_indices THEN UnmappedFrom(total_blocks, used_indices, i + 1)
    ELSE <<i>> \o UnmappedFrom(total_blocks, used_indices, i + 1)

\* next((m for m in mappings if "BODY" in m.placeholder_id.upper()), None):
\* position of the first such mapping, 0 if none
RECURSIVE BodyMappingPos(_, _)
BodyMappingPos(mappings, k) ==
    IF k > Len(mappings) THEN 0
    ELSE IF Contains(Upper(mappings[k].placeholder_id), ID_BODY) THEN k
    ELSE BodyMappingPos(mappings, k + 1)

AutoConfidence == 7
NoConfidence == 0

ContentMappingPlan(mappings, unmapped, warnings, confidence) ==
    [mappings |-> mappings, unmapped_content |-> unmapped,
     warnings |-> warnings, confidence |-> confidence]

\* _create_mapping_auto without the step that hands the leftover to BODY
_create_mapping_auto_NoLeftover(phs, blocks) ==
    LET acc == MapPlaceholders(phs, blocks, <<>>, {})
    IN  ContentMappingPlan(acc.mappings,
                           UnmappedFrom(Len(blocks), acc.used_indices, 0),
                           <<>>,
                           IF acc.mappings # <<>> THEN AutoConfidence ELSE NoConfidence)

_create_mapping_auto(phs, blocks) ==
    LET acc == MapPlaceholders(phs, blocks, <<>>, {})
        unmapped == UnmappedFrom(Len(blocks), acc.used_indices, 0)
        b == BodyMappingPos(acc.mappings, 1)
        extend == b > 0 /\ unmapped # <<>>
        mappings ==
            IF extend
            THEN [acc.mappings EXCEPT ![b].content_block_indices =
                     SortSeq(@ \o unmapped, LAMBDA x, y : x < y)]
            ELSE acc.mappings
    IN  ContentMappingPlan(mappings,
                           IF extend THEN <<>> ELSE unmapped,
                           <<>>,
                           IF mappings # <<>> THEN AutoConfidence ELSE NoConfidence)

----------------------------------------------------------------------------
(* src/llm/vllm_client.py : VLLMClient._extract_json                       *)
(* src/src/llm_content_mapper.py : LLM-backed mapping                      *)
(*                                                                         *)
(* The message content handed back by the transport is a record            *)
(*   wrap  : how the JSON text sits in the content ("bare": the content is *)
(*           the JSON text, "fenced": inside a ``` block, "embedded":      *)
(*           between the first { and the last }, "garbage": no JSON)       *)
(*   value : the JSON value that text denotes.                             *)
(* A JSON value is a record: kind ("dict", "list"), keys (the keys present *)
(* in a dict) and the values stored under those keys.                      *)

JsonValue(kind, keys, mappings, unmapped, warnings, confidence) ==
    [kind |-> kind, keys |-> keys, mappings |-> mappings,
     unmapped_content |-> unmapped, warnings |-> warnings, confidence |-> confidence]

JsonEntry(keys, pid, indices, transformation) ==
    [keys |-> keys, placeholder_id |-> pid, content_block_indices |-> indices,
     transformation |-> transformation]

ErrorDict == JsonValue("dict", {"error", "raw_response"}, <<>>, <<>>, <<>>, 0)

\* json.loads(text) succeeds only when the whole text is JSON; the fenced
\* block and the brace span are tried next; a dict is the only value a
\* brace span can hold
_extract_json(content) ==
    IF content.wrap = "bare" THEN content.value
    ELSE IF content.wrap = "fenced" THEN content.value
    ELSE IF content.wrap = "embedded" /\ content.value.kind = "dict" THEN content.value
    ELSE ErrorDict

Transformations == {"none", "summarize", "extract_first"}

DefaultLLMConfidence == 8

\* m.get("placeholder_id", ""), m.get("content_block_indices", []),
\* m.get("transformation", "none")
EntryToMapping(m) ==
    [placeholder_id |-> IF "placeholder_id" \in m.keys THEN m.placeholder_id ELSE <<>>,
     content_block_indices |->
        IF "content_block_indices" \in m.keys THEN m.content_block_indices ELSE <<>>,
     transformation |-> IF "transformation" \in m.keys THEN m.transformation ELSE "none"]

\* <<plan>> when a plan is returned, <<>> when an exception is raised
\* (response.get on a non-dict, pydantic validation of a mapping)
_parse_llm_response(response, phs, blocks) ==
    IF response.kind # "dict" THEN <<>>
    ELSE IF "error" \in response.keys
    THEN LET plan == _create_mapping_auto(phs, blocks)
         IN  << [plan EXCEPT !.warnings = @ \o <<"LLM response parsing failed">>] >>
    ELSE LET entries == IF "mappings" \in response.keys THEN response.mappings ELSE <<>>
             mappings == [k \in 1..Len(entries) |-> EntryToMapping(entries[k])]
         IN  IF \E k \in 1..Len(mappings) : mappings[k].transformation \notin Transformations
             THEN <<>>
             ELSE << ContentMappingPlan(
                        mappings,
                        IF "unmapped_content" \in response.keys
                        THEN response.unmapped_content ELSE <<>>,
                        IF "warnings" \in response.keys THEN response.warnings ELSE <<>>,
                        IF "confidence" \in response.keys
                        THEN response.confidence ELSE DefaultLLMConfidence) >>

\* an except branch that returns the rule-based plan without the notice
LLMFallback_NoNotice(phs, blocks) == _create_mapping_auto(phs, blocks)

\* the except branch of _create_mapping_with_llm
LLMFallback(phs, blocks) ==
    LET plan == _create_mapping_auto(phs, blocks)
    IN  [plan EXCEPT !.warnings = @ \o <<"LLM mapping failed, using auto-mapping">>]

\* the try body of _create_mapping_with_llm once generate_json has the content
MappingFromContent(content, phs, blocks) ==
    LET parsed == _parse_llm_response(_extract_json(content), phs, blocks)
    IN  IF parsed # <<>> THEN parsed[1] ELSE LLMFallback(phs, blocks)

----------------------------------------------------------------------------
(* Inputs *)

SeqsUpTo(S, n) == UNION {[1..k -> S] : k \in 0..n}

Token(name, ident) == PatternOpen(name) \o ident \o PatternClose(name)

\* ContentBlock (src/src/markdown_parser.py); attributes and inline_formats
\* are not represented
Block(type, level, content) ==
    [block_type |-> type, level |-> level, content |-> content,
     list_type |-> "", children |-> <<>>]

BlockPool ==
    { Block("heading", 1, <<"H">>), Block("heading", 2, <<"S">>),
      Block("heading", 3, <<"U">>), Block("paragraph", 0, <<"b">>) }

MapIdents == {ID_TITLE, ID_SUBTITLE, ID_BODY, ID_SECTION_1, ID_SECTION_2, ID_TOC, ID_DATE}

\* a template with one default-form token per body paragraph
TokenTemplate(idents) == [k \in 1..Len(idents) |-> << Token("default", idents[k]) >>]

EmptyDocInfo == [title |-> <<>>, subtitle |-> <<>>, sections |-> <<>>]

BracedTitle == Token("default", ID_TITLE)
BracedBody == Token("default", ID_BODY)
BracketBody == Token("bracket", ID_BODY)

\* message contents the LLM may hand back
LLMValues ==
    { JsonValue("dict", {"mappings", "unmapped_content", "warnings", "confidence"},
                << JsonEntry({"placeholder_id", "content_block_indices", "transformation"},
                             BracedTitle, <<0>>, "none"),
                   JsonEntry({"placeholder_id", "content_block_indices", "transformation"},
                             BracedBody, <<1>>, "none") >>, <<2>>, <<>>, 9),
      JsonValue("dict", {"mappings"},
                << JsonEntry({"placeholder_id", "content_block_indices"},
                             BracedTitle, <<0>>, "none"),
                   JsonEntry({"placeholder_id", "content_block_indices"},
                             BracedBody, <<0, 1>>, "none") >>, <<>>, <<>>, 0),
      JsonValue("dict", {"mappings", "confidence"},
                << JsonEntry({"placeholder_id", "content_block_indices", "transformation"},
                             BracedBody, <<0, 7>>, "summarize") >>, <<>>, <<>>, 5),
      JsonValue("dict", {"mappings"},
                << JsonEntry({"placeholder_id", "content_block_indices", "transformation"},
                             BracedBody, <<0>>, "rewrite") >>, <<>>, <<>>, 0),
      JsonValue("dict", {"mappings"},
                << JsonEntry({"content_block_indices"}, <<>>, <<0>>, "none") >>,
                <<>>, <<>>, 0),
      JsonValue("dict", {"mappings"},
                << JsonEntry({"placeholder_id"}, BracedBody, <<>>, "none") >>,
                <<>>, <<>>, 0),
      JsonValue("dict", {"mappings", "warnings"},
                << JsonEntry({"placeholder_id", "content_block_indices", "transformation"},
                             BracketBody, <<0>>, "none") >>, <<>>, <<"guess">>, 0),
      JsonValue("dict", {}, <<>>, <<>>, <<>>, 0),
      JsonValue("dict", {"error"}, <<>>, <<>>, <<>>, 0),
      JsonValue("list", {}, <<>>, <<>>, <<>>, 0) }

LLMContents ==
    { [wrap |-> "bare", value |-> v] : v \in LLMValues }
    \cup { [wrap |-> w, value |-> v] :
             w \in {"fenced", "embedded"},
             v \in { u \in LLMValues : u.keys \in {{}, {"mappings", "confidence"}} } }
    \cup { [wrap |-> "garbage", value |-> JsonValue("list", {}, <<>>, <<>>, <<>>, 0)] }

----------------------------------------------------------------------------
(* LLMContentMapper.create_mapping_plan and VLLMClient.generate_json       *)

MappingFrame == UNCHANGED <<placeholder_pattern, paragraphs, headers, placeholders,
                            raw_blocks, doc_info, use_llm, AnalysisVars>>

\* create_mapping_plan up to the choice of strategy
CreateMappingPlan ==
    /\ pc = "create_mapping_plan"
    /\ IF placeholders = <<>>
       THEN /\ result' = << ContentMappingPlan(<<>>, <<>>,
                              <<"No placeholders found in template">>, NoConfidence) >>
            /\ pc' = "mapped"
       ELSE IF raw_blocks = <<>>
       THEN /\ result' = << ContentMappingPlan(<<>>, <<>>,
                              <<"No content blocks found in markdown">>, NoConfidence) >>
            /\ pc' = "mapped"
       ELSE IF use_llm
       THEN /\ result' = result
            /\ pc' = "post_json_mode"
       ELSE /\ result' = << _create_mapping_auto(placeholders, raw_blocks) >>
            /\ pc' = "mapped"
    /\ UNCHANGED <<requests, llm_content, raised>>
    /\ MappingFrame

\* ContentMapperSync.create_mapping_plan: straight to the rule-based mapping
SyncCreateMappingPlan ==
    /\ pc = "create_mapping_plan_sync"
    /\ result' = << _create_mapping_auto(placeholders, raw_blocks) >>
    /\ pc' = "mapped"
    /\ UNCHANGED <<requests, llm_content, raised>>
    /\ MappingFrame

\* generate_json: chat_completion with response_format json_object
PostJsonMode ==
    /\ pc = "post_json_mode"
    /\ requests' = requests + 1
    /\ pc' = "await_json_mode"
    /\ UNCHANGED <<llm_content, raised, result>>
    /\ MappingFrame

\* the first request raises (timeout, HTTP status, connection): caught by
\* generate_json's `except Exception`, which goes on to a plain request
JsonModeRaises ==
    /\ pc = "await_json_mode"
    /\ pc' = "post_plain"
    /\ UNCHANGED <<requests, llm_content, raised, result>>
    /\ MappingFrame

\* generate_json: chat_completion without response_format
PostPlain ==
    /\ pc = "post_plain"
    /\ requests' = requests + 1
    /\ pc' = "await_plain"
    /\ UNCHANGED <<llm_content, raised, result>>
    /\ MappingFrame

\* the second request raises: the exception leaves generate_json and is
\* caught by _create_mapping_with_llm
PlainRaises ==
    /\ pc = "await_plain"
    /\ raised' = "transport"
    /\ result' = << LLMFallback(placeholders, raw_blocks) >>
    /\ pc' = "mapped"
    /\ UNCHANGED <<requests, llm_content>>
    /\ MappingFrame

\* either request is answered
TransportResponds ==
    /\ pc \in {"await_json_mode", "await_plain"}
    /\ \E content \in LLMContents : llm_content' = << content >>
    /\ pc' = "have_content"
    /\ UNCHANGED <<requests, raised, result>>
    /\ MappingFrame

\* _extract_json, _parse_llm_response and the except branch
ParseContent ==
    /\ pc = "have_content"
    /\ result' = << MappingFromContent(llm_content[1], placeholders, raw_blocks) >>
    /\ raised' = IF _parse_llm_response(_extract_json(llm_content[1]),
                                        placeholders, raw_blocks) = <<>>
                 THEN "parse" ELSE raised
    /\ pc' = "mapped"
    /\ UNCHANGED <<requests, llm_content>>
    /\ MappingFrame

MappingNext ==
    \/ CreateMappingPlan
    \/ SyncCreateMappingPlan
    \/ PostJsonMode
    \/ JsonModeRaises
    \/ PostPlain
    \/ PlainRaises
    \/ TransportResponds
    \/ ParseContent

InitMap ==
    /\ IdleAnalysis
    /\ use_llm \in BOOLEAN
    /\ pc \in {"create_mapping_plan"} \cup (IF use_llm THEN {} ELSE {"create_mapping_plan_sync"})
    /\ placeholder_pattern = "default"
    /\ \E idents \in SeqsUpTo(MapIdents, MaxPlaceholders) :
          /\ paragraphs = TokenTemplate(idents)
          /\ placeholders = TemplateParser_parse(TokenTemplate(idents), <<>>, "default")
    /\ headers = <<>>
    /\ raw_blocks \in SeqsUpTo(BlockPool, MaxBlocks)
    /\ doc_info = EmptyDocInfo
    /\ requests = 0
    /\ llm_content = <<>>
    /\ raised = "none"
    /\ result = <<>>

SpecMap == InitMap /\ [][MappingNext]_vars

----------------------------------------------------------------------------
(* Properties of the mapping engine (checked under SpecMap)                *)

Plan == result[1]

HasBodyPlaceholder == \E k \in 1..Len(placeholders) : placeholders[k].placeholder_type = "body"

RuleBasedDone == pc = "mapped" /\ ~use_llm

\* every index a plan references, mappings first, then unmapped_content
AllIndices(plan) ==
    Concat([k \in 1..Len(plan.mappings) |-> plan.mappings[k].content_block_indices])
    \o plan.unmapped_content

MappedIndices(plan) ==
    Concat([k \in 1..Len(plan.mappings) |-> plan.mappings[k].content_block_indices])

IsPartition(plan, n) ==
    /\ Len(AllIndices(plan)) = n
    /\ SeqToSet(AllIndices(plan)) = 0..(n - 1)

\* C1: with a BODY placeholder in the template, the rule-based plan holds
\* every block index of raw_blocks exactly once over all mappings and
\* unmapped_content, and holds no other index.
C1_Partition ==
    (RuleBasedDone /\ HasBodyPlaceholder) => IsPartition(Plan, Len(raw_blocks))

C1_Witness ==
    /\ RuleBasedDone /\ HasBodyPlaceholder
    /\ Len(Plan.mappings) >= 2
    /\ \E k \in 1..Len(Plan.mappings) : Len(Plan.mappings[k].content_block_indices) >= 2

InRange(plan, n) == \A i \in SeqToSet(AllIndices(plan)) : 0 <= i /\ i < n

NoFanOut(plan) ==
    \A j, k \in 1..Len(plan.mappings) :
        j # k => SeqToSet(plan.mappings[j].content_block_indices)
                 \cap SeqToSet(plan.mappings[k].content_block_indices) = {}

\* C2: every plan create_mapping_plan returns, on either path, references
\* only indices below len(raw_blocks) and no index in two mappings.
C2_IndicesValid ==
    pc = "mapped" => (InRange(Plan, Len(raw_blocks)) /\ NoFanOut(Plan))

\* C3: rule-based plan, BODY placeholder present, raw_blocks non-empty:
\* unmapped_content is empty and every block is in some mapping.
C3_NoLeftover ==
    (RuleBasedDone /\ HasBodyPlaceholder /\ raw_blocks # <<>>)
        => (/\ Plan.unmapped_content = <<>>
            /\ SeqToSet(MappedIndices(Plan)) = 0..(Len(raw_blocks) - 1))

HasFallbackNotice(plan) ==
    \E k \in 1..Len(plan.warnings) : plan.warnings[k] = "LLM mapping failed, using auto-mapping"

Malformed(content) ==
    LET v == _extract_json(content)
    IN  \/ v = ErrorDict
        \/ v.kind # "dict"
        \/ "mappings" \notin v.keys
        \/ \E k \in 1..Len(v.mappings) :
              ~ ({"placeholder_id", "content_block_indices"} \subseteq v.mappings[k].keys)

\* C5: a malformed response always ends in the rule-based plan with a
\* warning appended.
C5_MalformedFallsBack ==
    (pc = "mapped" /\ llm_content # <<>> /\ Malformed(llm_content[1]))
        => (/\ Plan.mappings = _create_mapping_auto(placeholders, raw_blocks).mappings
            /\ Plan.unmapped_content
                 = _create_mapping_auto(placeholders, raw_blocks).unmapped_content
            /\ Plan.warnings # <<>>)

\* C6: one create_mapping_plan call sends at most one request.
C6_AtMostOneRequest == requests <= 1

----------------------------------------------------------------------------
(* src/src/markdown_parser.py : MarkdownParser                             *)

MdToken(type, level, content) == [type |-> type, level |-> level, content |-> content]

\* token streams of the markup tokenizer for one top-level element
HeadingTokens(level, text) ==
    << MdToken("heading_open", level, <<>>), MdToken("inline", 0, text),
       MdToken("heading_close", level, <<>>) >>

ParagraphTokens(text) ==
    << MdToken("paragraph_open", 0, <<>>), MdToken("inline", 0, text),
       MdToken("paragraph_close", 0, <<>>) >>

HtmlTokens == << MdToken("html_block", 0, <<"<">>) >>

\* (block, consumed): block is <<>> for None
_process_token(tokens, index) ==
    LET token == tokens[index]
        inline == IF index + 1 <= Len(tokens) THEN << tokens[index + 1] >> ELSE <<>>
        text == IF inline # <<>> THEN inline[1].content ELSE <<>>
    IN  CASE token.type = "heading_open" ->
                [block |-> << Block("heading", token.level, text) >>, consumed |-> 3]
          [] token.type = "paragraph_open" ->
                IF inline # <<>> /\ inline[1].type # "inline"
                THEN [block |-> <<>>, consumed |-> 1]
                ELSE IF Strip(text, {" "}) = <<>>
                THEN [block |-> <<>>, consumed |-> 3]
                ELSE [block |-> << Block("paragraph", 0, text) >>, consumed |-> 3]
          [] token.type = "hr" ->
                [block |-> << Block("horizontal_rule", 0, <<>>) >>, consumed |-> 1]
          [] OTHER -> [block |-> <<>>, consumed |-> 1]

RECURSIVE TokensToBlocksFrom(_, _)
TokensToBlocksFrom(tokens, i) ==
    IF i > Len(tokens) THEN <<>>
    ELSE LET r == _process_token(tokens, i)
         IN  r.block \o TokensToBlocksFrom(tokens, i + r.consumed)

_tokens_to_blocks(tokens) == TokensToBlocksFrom(tokens, 1)

\* step 2 of _extract_title_subtitle (the block pool has no image block and
\* no inline formats, so steps 1 and 3 find nothing)
RECURSIVE TitleSubtitleFrom(_, _, _)
TitleSubtitleFrom(blocks, i, info) ==
    IF i > Len(blocks) THEN info
    ELSE IF blocks[i].block_type = "heading"
         THEN IF blocks[i].level = 1 /\ info.title = <<>>
              THEN TitleSubtitleFrom(blocks, i + 1, [info EXCEPT !.title = blocks[i].content])
              ELSE IF blocks[i].level = 2 /\ info.subtitle = <<>>
              THEN [info EXCEPT !.subtitle = blocks[i].content]
              ELSE TitleSubtitleFrom(blocks, i + 1, info)
    ELSE TitleSubtitleFrom(blocks, i + 1, info)

_extract_title_subtitle(blocks, info) == TitleSubtitleFrom(blocks, 1, info)

Section(heading, level, blocks) == [heading |-> heading, level |-> level, blocks |-> blocks]

\* sections closed so far, then the open one (<<>> when current_section is None)
RECURSIVE OrganizeFrom(_, _, _, _)
OrganizeFrom(blocks, i, sections, current) ==
    IF i > Len(blocks) THEN sections \o current
    ELSE IF blocks[i].block_type = "heading" /\ blocks[i].level <= 2
         THEN OrganizeFrom(blocks, i + 1, sections \o current,
                           << Section(blocks[i].content, blocks[i].level, <<>>) >>)
    ELSE LET cur == IF current = <<>> THEN Section(<<>>, 0, <<>>) ELSE current[1]
         IN  OrganizeFrom(blocks, i + 1, sections,
                          << [cur EXCEPT !.blocks = Append(@, blocks[i])] >>)

_organize_sections(blocks) == OrganizeFrom(blocks, 1, <<>>, <<>>)

----------------------------------------------------------------------------
(* src/src/docx_composer.py : DocxComposer                                 *)

\* DocxComposer.__init__: re.compile(PLACEHOLDER_PATTERNS["default"])
ComposerPattern == "default"

\* ContentMappingPlan.get_mapping_for_placeholder: <<>> for None
RECURSIVE MappingFrom(_, _, _)
MappingFrom(mappings, placeholder_id, k) ==
    IF k > Len(mappings) THEN <<>>
    ELSE IF mappings[k].placeholder_id = placeholder_id THEN << mappings[k] >>
    ELSE MappingFrom(mappings, placeholder_id, k + 1)

get_mapping_for_placeholder(plan, placeholder_id) == MappingFrom(plan.mappings, placeholder_id, 1)

\* [content.raw_blocks[i] for i in indices if i < len(content.raw_blocks)]
RECURSIVE ResolveBlocks(_, _)
ResolveBlocks(indices, blocks) ==
    IF indices = <<>> THEN <<>>
    ELSE (IF Head(indices) < Len(blocks) THEN << blocks[Head(indices) + 1] >> ELSE <<>>)
         \o ResolveBlocks(Tail(indices), blocks)

\* "\n".join / " | ".join
RECURSIVE Join(_, _)
Join(parts, sep) ==
    IF parts = <<>> THEN <<>>
    ELSE IF Len(parts) = 1 THEN parts[1]
    ELSE parts[1] \o sep \o Join(Tail(parts), sep)

ItemNumber(n) == CASE n = 1 -> <<"1">> [] n = 2 -> <<"2">> [] OTHER -> <<"0">>

\* table blocks are not in the block pool
_get_block_text(block) ==
    IF block.block_type = "list"
    THEN Join([k \in 1..Len(block.children) |->
                  (IF block.list_type = "bullet" THEN <<"-", " ">>
                   ELSE ItemNumber(k) \o <<".", " ">>)
                  \o block.children[k].content], <<"\n">>)
    ELSE block.content

\* Python: s.replace(old, new), every non-overlapping occurrence, left to right
RECURSIVE Replace(_, _, _)
Replace(text, old, new) ==
    IF Len(text) < Len(old) \/ old = <<>> THEN text
    ELSE IF StartsWith(text, old)
         THEN new \o Replace(SubSeq(text, Len(old) + 1, Len(text)), old, new)
    ELSE << Head(text) >> \o Replace(Tail(text), old, new)

\* run by run: only a run that holds the whole of old_text is changed
_replace_text_in_paragraph(para, old_text, new_text) ==
    [r \in 1..Len(para) |->
        IF Contains(para[r], old_text) THEN Replace(para[r], old_text, new_text)
        ELSE para[r]]

\* doc.add_paragraph(text): a paragraph at the end of the document body,
\* with one run when the text is not empty
NewParagraph(text) == IF text = <<>> THEN <<>> ELSE << text >>

\* the paragraphs _insert_block_after adds for one block
InsertedParagraphs(block) ==
    IF block.block_type = "list"
    THEN [k \in 1..Len(block.children) |->
             NewParagraph((IF block.list_type = "bullet" THEN <<"-", " ">> ELSE <<>>)
                          \o block.children[k].content)]
    ELSE IF block.block_type = "code" THEN << << block.content >> >>
    ELSE << NewParagraph(block.content) >>

\* the loop over matches in _process_paragraph; body[k] is the paragraph
RECURSIVE ProcessMatches(_, _, _, _, _)
ProcessMatches(body, k, matches, plan, blocks) ==
    IF matches = <<>> THEN body
    ELSE LET placeholder_id == Head(matches).group0
             mapping == get_mapping_for_placeholder(plan, placeholder_id)
             mapped == IF mapping = <<>> THEN <<>>
                       ELSE ResolveBlocks(mapping[1].content_block_indices, blocks)
             replaced ==
                 [body EXCEPT ![k] = _replace_text_in_paragraph(@, placeholder_id,
                     IF mapped = <<>> THEN <<>> ELSE _get_block_text(mapped[1]))]
             inserted ==
                 IF Len(mapped) > 1
                 THEN Concat([j \in 1..(Len(mapped) - 1) |-> InsertedParagraphs(mapped[j + 1])])
                 ELSE <<>>
         IN  IF mapping = <<>>
             THEN ProcessMatches(body, k, Tail(matches), plan, blocks)
             ELSE ProcessMatches(replaced \o inserted, k, Tail(matches), plan, blocks)

_process_paragraph(body, k, plan, blocks) ==
    ProcessMatches(body, k, FindIter(ParagraphText(body[k]), ComposerPattern), plan, blocks)

\* the loop over list(doc.paragraphs), a snapshot of the first n paragraphs
RECURSIVE ReplaceInDocumentFrom(_, _, _, _, _)
ReplaceInDocumentFrom(body, k, n, plan, blocks) ==
    IF k > n THEN body
    ELSE ReplaceInDocumentFrom(_process_paragraph(body, k, plan, blocks), k + 1, n, plan, blocks)

\* a body pass that also appends the blocks of plan.unmapped_content
_replace_placeholders_in_document_AppendsUnmapped(body, plan, blocks) ==
    ReplaceInDocumentFrom(body, 1, Len(body), plan, blocks)
    \o Concat([j \in 1..Len(ResolveBlocks(plan.unmapped_content, blocks)) |->
                  InsertedParagraphs(ResolveBlocks(plan.unmapped_content, blocks)[j])])

_replace_placeholders_in_document(body, plan, blocks) ==
    ReplaceInDocumentFrom(body, 1, Len(body), plan, blocks)

RECURSIVE ProcessMatchesSimple(_, _, _, _)
ProcessMatchesSimple(para, matches, plan, blocks) ==
    IF matches = <<>> THEN para
    ELSE LET placeholder_id == Head(matches).group0
             mapping == get_mapping_for_placeholder(plan, placeholder_id)
             mapped == IF mapping = <<>> THEN <<>>
                       ELSE ResolveBlocks(mapping[1].content_block_indices, blocks)
             text == Join([j \in 1..Len(mapped) |-> _get_block_text(mapped[j])],
                          <<" ", "|", " ">>)
         IN  IF mapping = <<>>
             THEN ProcessMatchesSimple(para, Tail(matches), plan, blocks)
             ELSE ProcessMatchesSimple(_replace_text_in_paragraph(para, placeholder_id, text),
                                       Tail(matches), plan, blocks)

_process_paragraph_simple(para, plan, blocks) ==
    ProcessMatchesSimple(para, FindIter(ParagraphText(para), ComposerPattern), plan, blocks)

\* header and footer containers
_replace_placeholders_in_container(hdrs, plan, blocks) ==
    [k \in 1..Len(hdrs) |-> _process_paragraph_simple(hdrs[k], plan, blocks)]

----------------------------------------------------------------------------
(* The conversion pipeline (src/pipeline.py :                              *)
(* DocumentAutomationPipeline.process_async)                               *)

MaxParagraphs == 2
MaxElements == 2

PipelinePatterns == {"default", "bracket"}

ParagraphPool ==
    { << Token(f, ident) >> : f \in PipelinePatterns, ident \in {ID_TITLE, ID_BODY} }
    \cup { << <<"{", "{", "B", "O">>, <<"D", "Y", "}", "}">> >>,
           << <<"x">> >> }

HeaderChoices == { <<>>, << << Token("default", ID_TITLE) >> >> }

MdElements ==
    { HeadingTokens(1, <<"H">>), HeadingTokens(2, <<"S">>),
      ParagraphTokens(<<"b">>), ParagraphTokens(<<" ">>), HtmlTokens }

\* TemplateParser(template_path, placeholder_pattern).parse()
ParseTemplate ==
    /\ pc = "parse_template"
    /\ placeholders' = TemplateParser_parse(paragraphs, headers, placeholder_pattern)
    /\ pc' = "parse_markdown"
    /\ UNCHANGED <<placeholder_pattern, paragraphs, headers, raw_blocks, doc_info,
                   use_llm, requests, llm_content, raised, result, AnalysisVars>>

\* MarkdownParser.parse: doc.raw_blocks = self._tokens_to_blocks(tokens)
TokensToBlocks ==
    /\ pc = "parse_markdown"
    /\ \E elements \in SeqsUpTo(MdElements, MaxElements) :
          raw_blocks' = _tokens_to_blocks(Concat(elements))
    /\ pc' = "extract_title_subtitle"
    /\ UNCHANGED <<placeholder_pattern, paragraphs, headers, placeholders, doc_info,
                   use_llm, requests, llm_content, raised, result, AnalysisVars>>

\* MarkdownParser.parse: self._extract_title_subtitle(doc)
ExtractTitleSubtitle ==
    /\ pc = "extract_title_subtitle"
    /\ doc_info' = _extract_title_subtitle(raw_blocks, doc_info)
    /\ pc' = "organize_sections"
    /\ UNCHANGED <<placeholder_pattern, paragraphs, headers, placeholders, raw_blocks,
                   use_llm, requests, llm_content, raised, result, AnalysisVars>>

\* a section organiser that moves the section headings out of raw_blocks
OrganizeSections_ConsumesHeadings ==
    /\ pc = "organize_sections"
    /\ doc_info' = [doc_info EXCEPT !.sections = _organize_sections(raw_blocks)]
    /\ raw_blocks' = SelectSeq(raw_blocks,
                         LAMBDA b : ~ (b.block_type = "heading" /\ b.level <= 2))
    /\ pc' = IF use_llm THEN "create_mapping_plan" ELSE "create_mapping_plan_sync"
    /\ UNCHANGED <<placeholder_pattern, paragraphs, headers, placeholders,
                   use_llm, requests, llm_content, raised, result, AnalysisVars>>

\* MarkdownParser.parse: doc.sections = self._organize_sections(doc.raw_blocks),
\* then the pipeline picks the mapper
OrganizeSections ==
    /\ pc = "organize_sections"
    /\ doc_info' = [doc_info EXCEPT !.sections = _organize_sections(raw_blocks)]
    /\ pc' = IF use_llm THEN "create_mapping_plan" ELSE "create_mapping_plan_sync"
    /\ UNCHANGED <<placeholder_pattern, paragraphs, headers, placeholders, raw_blocks,
                   use_llm, requests, llm_content, raised, result, AnalysisVars>>

\* DocxComposer.compose: body paragraphs, then header and footer paragraphs
Compose ==
    /\ pc = "mapped"
    /\ paragraphs' = _replace_placeholders_in_document(paragraphs, result[1], raw_blocks)
    /\ headers' = _replace_placeholders_in_container(headers, result[1], raw_blocks)
    /\ pc' = "done"
    /\ UNCHANGED <<placeholder_pattern, placeholders, raw_blocks, doc_info,
                   use_llm, requests, llm_content, raised, result, AnalysisVars>>

Init ==
    /\ IdleAnalysis
    /\ pc = "parse_template"
    /\ placeholder_pattern \in PipelinePatterns
    /\ paragraphs \in SeqsUpTo(ParagraphPool, MaxParagraphs)
    /\ headers \in HeaderChoices
    /\ placeholders = <<>>
    /\ raw_blocks = <<>>
    /\ doc_info = EmptyDocInfo
    /\ use_llm \in BOOLEAN
    /\ requests = 0
    /\ llm_content = <<>>
    /\ raised = "none"
    /\ result = <<>>

Next ==
    \/ ParseTemplate
    \/ TokensToBlocks
    \/ ExtractTitleSubtitle
    \/ OrganizeSections
    \/ CreateMappingPlan
    \/ SyncCreateMappingPlan
    \/ PostJsonMode
    \/ JsonModeRaises
    \/ PostPlain
    \/ PlainRaises
    \/ TransportResponds
    \/ ParseContent
    \/ Compose

Spec == Init /\ [][Next]_vars

----------------------------------------------------------------------------
(* Properties of the pipeline (checked under Spec)                         *)

\* C7: once parsing has produced raw_blocks, no later step (title/subtitle
\* inference, section organisation, mapping, composition) changes the
\* sequence: no reorder, insert or remove.
C7_RawBlocksStable ==
    [][pc \notin {"parse_template", "parse_markdown"} => raw_blocks' = raw_blocks]_vars

C7_Witness ==
    /\ pc = "done"
    /\ Len(raw_blocks) >= 2
    /\ doc_info.sections # <<>>
    /\ \E k \in 1..Len(result[1].mappings) :
          Len(result[1].mappings[k].content_block_indices) >= 2

\* the identifier grammar [A-Z_]+(_\d+)?, stated declaratively
IsIdent(s) ==
    \/ s # <<>> /\ \A i \in 1..Len(s) : s[i] \in IdentChars
    \/ \E k \in 1..(Len(s) - 2) :
          /\ \A i \in 1..k : s[i] \in IdentChars
          /\ s[k + 1] = "_"
          /\ \A i \in (k + 2)..Len(s) : s[i] \in DigitChars

\* s is a token of the lexical form `name`
IsToken(s, name) ==
    LET open == PatternOpen(name)
        close == PatternClose(name)
    IN  /\ Len(s) > Len(open) + Len(close)
        /\ SubSeq(s, 1, Len(open)) = open
        /\ SubSeq(s, Len(s) - Len(close) + 1, Len(s)) = close
        /\ IsIdent(SubSeq(s, Len(open) + 1, Len(s) - Len(close)))

\* C9: after compose, no token of the configured form that has a mapping
\* in the plan remains in the text of a body, header or footer paragraph.
C9_MappedTokensResolved ==
    pc = "done" =>
        \A k \in 1..Len(result[1].mappings) :
            IsToken(result[1].mappings[k].placeholder_id,
                    IF placeholder_pattern \in PatternNames THEN placeholder_pattern
                    ELSE "default")
            => /\ \A j \in 1..Len(paragraphs) :
                     ~ Contains(ParagraphText(paragraphs[j]), result[1].mappings[k].placeholder_id)
               /\ \A j \in 1..Len(headers) :
                     ~ Contains(ParagraphText(headers[j]), result[1].mappings[k].placeholder_id)

----------------------------------------------------------------------------
(* The placeholder extractor on its own (checked under SpecExtract)        *)

ExtractIdents == {ID_TITLE, ID_BODY, ID_SECTION_1, ID_NOTE, ID_COVER_IMAGE}

\* what a paragraph's text is assembled from: tokens of any form, filler
PiecePool ==
    { Token(f, ident) : f \in PatternNames, ident \in ExtractIdents }
    \cup { <<" ">>, <<"x">> }

\* configuration keys; "other" is a key PLACEHOLDER_PATTERNS does not have
PatternKeys == PatternNames \cup {"other"}

InitExtract ==
    /\ IdleAnalysis
    /\ pc = "parse_template"
    /\ placeholder_pattern \in PatternKeys
    /\ \E pieces \in SeqsUpTo(PiecePool, MaxPieces) :
          paragraphs = << << Concat(pieces) >> >>
    /\ headers = <<>>
    /\ placeholders = <<>>
    /\ raw_blocks = <<>>
    /\ doc_info = EmptyDocInfo
    /\ use_llm = FALSE
    /\ requests = 0
    /\ llm_content = <<>>
    /\ raised = "none"
    /\ result = <<>>

SpecExtract == InitExtract /\ [][ParseTemplate]_vars

TemplateParsed == pc = "parse_markdown"

\* the lexical form the conversion is configured with
ConfiguredForm ==
    IF placeholder_pattern \in PatternNames THEN placeholder_pattern ELSE "default"

\* the identifier a recorded token wraps, given the form it was found with
WrappedIdent(id, name) ==
    SubSeq(id, Len(PatternOpen(name)) + 1, Len(id) - Len(PatternClose(name)))

IsSectionIdent(ident) ==
    /\ StartsWith(ident, ID_SECTION_)
    /\ Len(ident) > Len(ID_SECTION_)
    /\ \A i \in (Len(ID_SECTION_) + 1)..Len(ident) : ident[i] \in DigitChars

\* C8: a recorded token wrapping identifier ID has the type and section
\* number that ID alone determines (exact map, SECTION_n, else custom),
\* whichever of the four forms wraps it.
C8_TypeFromIdentifier ==
    TemplateParsed =>
        \A k \in 1..Len(placeholders) :
            LET ident == WrappedIdent(placeholders[k].id, ConfiguredForm)
            IN  IF IsSectionIdent(ident)
                THEN /\ placeholders[k].placeholder_type = "section"
                     /\ placeholders[k].section_number
                          = ToInt(SubSeq(ident, Len(ID_SECTION_) + 1, Len(ident)))
                ELSE /\ placeholders[k].placeholder_type = PLACEHOLDER_TYPE_MAP(ident)
                     /\ placeholders[k].section_number = NoSection

\* occurrences <<i, j>> of tokens of form `name` in text
TokenOccurrences(text, name) ==
    { o \in (1..Len(text)) \X (1..Len(text)) :
        o[1] <= o[2] /\ IsToken(SubSeq(text, o[1], o[2]), name) }

Overlap(o1, o2) == o1[1] <= o2[2] /\ o2[1] <= o1[2]

RecordedIds == { placeholders[k].id : k \in 1..Len(placeholders) }

RecordsNoOtherForm ==
    \A id \in RecordedIds :
        /\ IsToken(id, ConfiguredForm)
        /\ \A g \in PatternNames \ {ConfiguredForm} : ~ IsToken(id, g)

\* C10 as stated: every token of the configured form in a paragraph's text
\* is recorded, and no token of another form is.
C10_EveryTokenRecorded ==
    TemplateParsed =>
        /\ \A j \in 1..Len(paragraphs) :
              \A o \in TokenOccurrences(ParagraphText(paragraphs[j]), ConfiguredForm) :
                  SubSeq(ParagraphText(paragraphs[j]), o[1], o[2]) \in RecordedIds
        /\ RecordsNoOtherForm

\* C10 amended: every token of the configured form that shares no character
\* with another token of that form is recorded (tokens of the brace, bracket
\* and angle forms never share one, so all of them are), and no token of
\* another form is.
C10_IsolatedTokenRecorded ==
    TemplateParsed =>
        /\ \A j \in 1..Len(paragraphs) :
              LET text == ParagraphText(paragraphs[j])
                  occ == TokenOccurrences(text, ConfiguredForm)
              IN  /\ \A o \in occ :
                        (\A o2 \in occ : o2 # o => ~ Overlap(o, o2))
                        => SubSeq(text, o[1], o[2]) \in RecordedIds
                  /\ ConfiguredForm # "underscore"
                        => \A o \in occ : SubSeq(text, o[1], o[2]) \in RecordedIds
        /\ RecordsNoOtherForm

C10_Witness ==
    /\ TemplateParsed
    /\ placeholder_pattern = "bracket"
    /\ Contains(ParagraphText(paragraphs[1]), Token("default", ID_BODY))
    /\ Contains(ParagraphText(paragraphs[1]), Token("bracket", ID_BODY))
    /\ RecordedIds = { Token("bracket", ID_BODY) }

----------------------------------------------------------------------------
(* Rule-based assignment per placeholder type (checked under SpecMap)      *)

MinOf(S) == CHOOSE x \in S : \A y \in S : x <= y

BlockIndices == 0..(Len(raw_blocks) - 1)

\* indices held by the mappings that precede position j of the plan: the
\* used_indices set when the placeholder of mapping j was processed
UsedBefore(plan, j) ==
    UNION {SeqToSet(plan.mappings[k].content_block_indices) : k \in 1..(j - 1)}

UsedAfter(plan, j) ==
    UNION {SeqToSet(plan.mappings[k].content_block_indices) :
              k \in (j + 1)..Len(plan.mappings)}

MappingType(plan, j) == parse_placeholder_id(plan.mappings[j].placeholder_id).ptype

MappingSection(plan, j) ==
    LET n == parse_placeholder_id(plan.mappings[j].placeholder_id).section_number
    IN  IF n = NoSection THEN 1 ELSE n

Ascending(seq) == \A a, b \in 1..Len(seq) : a < b => seq[a] < seq[b]

UnusedOfKind(U, IsKind(_)) == {i \in BlockIndices : i \notin U /\ IsKind(raw_blocks[i + 1])}

IsLevel2(block) == IsHeading(block, 2)
IsParagraph(block) == block.block_type = "paragraph"
IsTopHeading(block) == block.block_type = "heading" /\ block.level <= 2

\* C18: a SUBTITLE placeholder gets the first unused level-2 heading
\* whenever an unused level-2 heading exists, and the first unused
\* paragraph only when none exists.
C18_SubtitlePrefersHeading ==
    RuleBasedDone =>
        \A j \in 1..Len(Plan.mappings) :
            MappingType(Plan, j) = "subtitle" =>
                LET U == UsedBefore(Plan, j)
                    H2 == UnusedOfKind(U, IsLevel2)
                    Ps == UnusedOfKind(U, IsParagraph)
                IN  Plan.mappings[j].content_block_indices =
                        IF H2 # {} THEN << MinOf(H2) >>
                        ELSE IF Ps # {} THEN << MinOf(Ps) >>
                        ELSE <<>>

\* the n-th element of a set of indices, in ascending order (n >= 1)
NthOf(S, n) == CHOOSE h \in S : Cardinality({x \in S : x < h}) = n - 1

\* first element of S above h, or the length of raw_blocks
NextOf(S, h) ==
    IF \E x \in S : x > h THEN MinOf({x \in S : x > h}) ELSE Len(raw_blocks)

\* C19 (as stated): a SECTION(n) placeholder gets exactly the unused blocks
\* strictly between the n-th and the (n+1)-th level-2 heading of the whole
\* block sequence, claimed headings counted, the headings excluded.
C19_SectionBetweenHeadings ==
    RuleBasedDone =>
        \A j \in 1..Len(Plan.mappings) :
            MappingType(Plan, j) = "section" =>
                LET U == UsedBefore(Plan, j)
                    n == MappingSection(Plan, j)
                    H2 == UnusedOfKind({}, IsLevel2)
                    indices == Plan.mappings[j].content_block_indices
                IN  /\ Cardinality(H2) >= n
                    /\ SeqToSet(indices) =
                          {i \in BlockIndices : /\ i \notin U
                                                /\ NthOf(H2, n) < i
                                                /\ i < NextOf(H2, NthOf(H2, n))}

\* C19 (amended): a SECTION(n) placeholder gets exactly the n-th unused
\* level-2 heading and the unused blocks after it up to, not including, the
\* next unused level-2 heading, in ascending order; level-2 headings that an
\* earlier placeholder claimed are not counted.  A template with a single
\* SECTION(n) placeholder gets that mapping whenever the block sequence has
\* n level-2 headings.
C19_SectionRun ==
    RuleBasedDone =>
        /\ \A j \in 1..Len(Plan.mappings) :
              MappingType(Plan, j) = "section" =>
                  LET U == UsedBefore(Plan, j)
                      n == MappingSection(Plan, j)
                      H2 == UnusedOfKind(U, IsLevel2)
                      indices == Plan.mappings[j].content_block_indices
                  IN  /\ Cardinality(H2) >= n
                      /\ Ascending(indices)
                      /\ SeqToSet(indices) =
                            {i \in BlockIndices : /\ i \notin U
                                                  /\ NthOf(H2, n) <= i
                                                  /\ i < NextOf(H2, NthOf(H2, n))}
        /\ (/\ Len(placeholders) = 1
            /\ placeholders[1].placeholder_type = "section"
            /\ raw_blocks # <<>>
            /\ Cardinality(UnusedOfKind({}, IsLevel2)) >=
                  (IF placeholders[1].section_number = NoSection THEN 1
                   ELSE placeholders[1].section_number))
           => Len(Plan.mappings) = 1

\* a second section is mapped, its heading included, after an earlier
\* placeholder claimed a level-2 heading
C19_Witness ==
    /\ RuleBasedDone
    /\ \E j \in 1..Len(Plan.mappings) :
          /\ MappingType(Plan, j) = "section"
          /\ Len(Plan.mappings[j].content_block_indices) >= 2
          /\ IsHeading(raw_blocks[Plan.mappings[j].content_block_indices[1] + 1], 2)
          /\ \E i \in UsedBefore(Plan, j) : IsHeading(raw_blocks[i + 1], 2)

\* C20 (as stated): the BODY mapping of the returned plan holds every block
\* that was unused when BODY was processed, except a heading of level <= 2
\* that is the first unused block, which it never holds.
C20_BodySkipsLeadingHeading ==
    (RuleBasedDone /\ BodyMappingPos(Plan.mappings, 1) > 0) =>
        LET b == BodyMappingPos(Plan.mappings, 1)
            Unused == BlockIndices \ UsedBefore(Plan, b)
            leading == IF Unused # {} /\ IsTopHeading(raw_blocks[MinOf(Unused) + 1])
                       THEN {MinOf(Unused)} ELSE {}
        IN  SeqToSet(Plan.mappings[b].content_block_indices) = Unused \ leading

\* C20 (amended): the BODY mapping of the returned plan holds, in ascending
\* order, every block that was unused when BODY was processed, except that
\* the first unused heading of level <= 2 (wherever it stands among the
\* unused blocks) is left to the placeholders that follow: it is absent from
\* the BODY mapping exactly when a later placeholder claimed it, and later
\* placeholders claim nothing else.
C20_BodyKeepsUnclaimed ==
    (RuleBasedDone /\ BodyMappingPos(Plan.mappings, 1) > 0) =>
        LET b == BodyMappingPos(Plan.mappings, 1)
            Unused == BlockIndices \ UsedBefore(Plan, b)
            Hs == {i \in Unused : IsTopHeading(raw_blocks[i + 1])}
            skipped == IF Hs # {} THEN {MinOf(Hs)} ELSE {}
            later == UsedAfter(Plan, b)
            indices == Plan.mappings[b].content_block_indices
        IN  /\ later \subseteq skipped
            /\ Ascending(indices)
            /\ SeqToSet(indices) = Unused \ later

\* a heading that is not the first unused block was skipped and, nobody
\* having claimed it, is in the BODY mapping
C20_Witness ==
    /\ RuleBasedDone /\ BodyMappingPos(Plan.mappings, 1) > 0
    /\ LET b == BodyMappingPos(Plan.mappings, 1)
           Unused == BlockIndices \ UsedBefore(Plan, b)
           Hs == {i \in Unused : IsTopHeading(raw_blocks[i + 1])}
       IN  /\ Hs # {}
           /\ MinOf(Hs) > MinOf(Unused)
           /\ MinOf(Hs) \in SeqToSet(Plan.mappings[b].content_block_indices)
           /\ Len(Plan.mappings) >= 2

----------------------------------------------------------------------------
(* src/src/style_mapper.py : StyleMapper._get_style                        *)
(* src/src/template_analyzer.py : TemplateStructure                        *)
(*                                                                         *)
(* A StyleInfo is represented by style_id, name and outline_level          *)
(* (0 or 1 element); a MappedStyle by style_name, style_id, apply_direct.  *)
(* The font and paragraph attributes are copied from one to the other      *)
(* unchanged and are not represented.  Style names and role keys are       *)
(* whole strings.                                                          *)

MaxStyles == 3
MaxLookups == 4

StyleInfo(style_id, name, outline_level) ==
    [style_id |-> style_id, name |-> name, outline_level |-> outline_level]

MappedStyle(style_name, style_id, apply_direct) ==
    [style_name |-> style_name, style_id |-> style_id, apply_direct |-> apply_direct]

\* str.lower() on the style names and candidates in use
LowerName(name) ==
    CASE name = "Heading 1" -> "heading 1"
      [] name = "Heading 2" -> "heading 2"
      [] name = "Heading1" -> "heading1"
      [] name = "Heading2" -> "heading2"
      [] name = "Title" -> "title"
      [] name = "Subtitle" -> "subtitle"
      [] name = "Normal" -> "normal"
      [] name = "Body Text" -> "body text"
      [] name = "Rubric" -> "rubric"
      [] name = "Chapter" -> "chapter"
      [] OTHER -> name

\* TemplateStructure.get_style_by_outline_level: 0 or 1 element
RECURSIVE StyleByLevelFrom(_, _, _)
StyleByLevelFrom(table, level, k) ==
    IF k > Len(table) THEN <<>>
    ELSE IF table[k].outline_level = << level >> THEN << table[k] >>
    ELSE StyleByLevelFrom(table, level, k + 1)

get_style_by_outline_level(table, level) == StyleByLevelFrom(table, level, 1)

_style_info_to_mapped(style_info) ==
    MappedStyle(style_info.name, style_info.style_id, FALSE)

\* position of the style whose id is the candidate, 0 if none
RECURSIVE StyleById(_, _, _)
StyleById(table, candidate, k) ==
    IF k > Len(table) THEN 0
    ELSE IF table[k].style_id = candidate THEN k
    ELSE StyleById(table, candidate, k + 1)

\* position of the first style whose lowered name is the lowered candidate
RECURSIVE StyleByName(_, _, _)
StyleByName(table, candidate, k) ==
    IF k > Len(table) THEN 0
    ELSE IF LowerName(table[k].name) = LowerName(candidate) THEN k
    ELSE StyleByName(table, candidate, k + 1)

RECURSIVE FindBestFrom(_, _, _)
FindBestFrom(table, candidates, c) ==
    IF c > Len(candidates)
    THEN MappedStyle(IF candidates # <<>> THEN candidates[1] ELSE "Normal", "", TRUE)
    ELSE IF StyleById(table, candidates[c], 1) > 0
         THEN _style_info_to_mapped(table[StyleById(table, candidates[c], 1)])
    ELSE IF StyleByName(table, candidates[c], 1) > 0
         THEN _style_info_to_mapped(table[StyleByName(table, candidates[c], 1)])
    ELSE FindBestFrom(table, candidates, c + 1)

_find_best_style(table, candidates) == FindBestFrom(table, candidates, 1)

\* a role key: 'heading_N' is [role |-> "heading", level |-> N]
StyleKey(role, level) == [role |-> role, level |-> level]

HeadingNames(md_level) ==
    CASE md_level = 1 -> <<"heading 1", "Heading 1", "Heading1">>
      [] md_level = 2 -> <<"heading 2", "Heading 2", "Heading2">>
      [] OTHER -> <<"heading 3", "Heading 3", "Heading3">>

DEFAULT_MAPPING(role) ==
    CASE role = "paragraph" -> <<"Body Text", "Normal">>
      [] role = "bullet_list" -> <<"List Bullet", "List Bullet 2">>
      [] role = "ordered_list" -> <<"List Number", "List Number 2">>
      [] role = "blockquote" -> <<"Quote", "Intense Quote", "Block Text">>
      [] role = "code" -> <<"Normal">>
      [] role = "table" -> <<"Table Grid">>
      [] OTHER -> <<"Normal">>

\* by outline level first, by the name candidates on a miss
ByLevelThenNames(table, outline_level, names) ==
    LET style_info == get_style_by_outline_level(table, outline_level)
    IN  IF style_info # <<>>
        THEN [style |-> _style_info_to_mapped(style_info[1]),
              searched |-> <<"outline">>]
        ELSE [style |-> _find_best_style(table, names),
              searched |-> <<"outline", "names">>]

ByNames(table, names) ==
    [style |-> _find_best_style(table, names), searched |-> <<"names">>]

\* _get_style on a cache miss, with the name candidates tried before the
\* outline level
ResolveStyle_NamesFirst(table, style_key) ==
    IF style_key.role = "heading" /\ StyleByName(table, HeadingNames(style_key.level)[2], 1) > 0
    THEN ByNames(table, HeadingNames(style_key.level))
    ELSE IF style_key.role = "heading"
    THEN ByLevelThenNames(table, style_key.level - 1, HeadingNames(style_key.level))
    ELSE ByNames(table, DEFAULT_MAPPING(style_key.role))

\* _get_style on a cache miss: the style and the searches made for it
ResolveStyle(table, style_key) ==
    CASE style_key.role = "heading" ->
            ByLevelThenNames(table, style_key.level - 1, HeadingNames(style_key.level))
      [] style_key.role = "title" -> ByNames(table, <<"Title", "af0">>)
      [] style_key.role = "subtitle" -> ByNames(table, <<"Subtitle", "ae">>)
      [] style_key.role = "section_number" ->
            ByLevelThenNames(table, 0, <<"heading 1", "Heading 1">>)
      [] style_key.role = "section_title" ->
            ByLevelThenNames(table, 1, <<"Subtitle", "ae", "heading 2">>)
      [] style_key.role = "section_headline" ->
            ByLevelThenNames(table, 0, <<"heading 1", "Heading 1">>)
      [] OTHER -> ByNames(table, DEFAULT_MAPPING(style_key.role))

\* _get_style that never reads style_cache
_get_style_NoCache(table, cache, style_key) ==
    LET r == ResolveStyle(table, style_key)
    IN  [style |-> r.style, searched |-> r.searched,
         cache |-> [k \in DOMAIN cache \cup {style_key} |->
                       IF k = style_key THEN r.style ELSE cache[k]]]

\* _get_style: the style returned, the searches made, the cache afterwards
_get_style(table, cache, style_key) ==
    IF style_key \in DOMAIN cache
    THEN [style |-> cache[style_key], searched |-> <<>>, cache |-> cache]
    ELSE LET r == ResolveStyle(table, style_key)
         IN  [style |-> r.style, searched |-> r.searched,
              cache |-> [k \in DOMAIN cache \cup {style_key} |->
                            IF k = style_key THEN r.style ELSE cache[k]]]

\* the role keys StyleMapper.map_document and _map_block ask for
StyleKeys ==
    { StyleKey("heading", 1), StyleKey("heading", 2), StyleKey("title", 0),
      StyleKey("subtitle", 0), StyleKey("section_number", 0),
      StyleKey("section_title", 0), StyleKey("paragraph", 0) }

StylePool ==
    { StyleInfo("S1", "Chapter", <<0>>), StyleInfo("S2", "Rubric", <<0>>),
      StyleInfo("S3", "Heading 1", <<>>), StyleInfo("Heading1", "Rubric", <<>>),
      StyleInfo("S4", "heading 2", <<1>>), StyleInfo("Title", "Title", <<>>),
      StyleInfo("Normal", "Normal", <<>>) }

\* style tables: style ids are the keys of TemplateStructure.styles
StyleTables ==
    {t \in SeqsUpTo(StylePool, MaxStyles) :
        \A a, b \in 1..Len(t) : a # b => t[a].style_id # t[b].style_id}

IdlePipeline ==
    /\ pc = "idle" /\ placeholder_pattern = "default"
    /\ paragraphs = <<>> /\ headers = <<>> /\ placeholders = <<>>
    /\ raw_blocks = <<>> /\ doc_info = EmptyDocInfo /\ use_llm = FALSE
    /\ requests = 0 /\ llm_content = <<>> /\ raised = "none" /\ result = <<>>

\* one call of StyleMapper._get_style
GetStyle ==
    /\ lookups < MaxLookups
    /\ \E style_key \in StyleKeys :
          LET r == _get_style(styles, style_cache, style_key)
          IN  /\ style_cache' = r.cache
              /\ lookups' = lookups + Len(r.searched)
              /\ returned' = << [key |-> style_key, style |-> r.style,
                                 searched |-> r.searched] >>
    /\ UNCHANGED <<styles, PipelineVars, PageVars, PackageVars, BatchVars, InheritVars>>

\* StyleMapper.__init__ on an analysed template
InitStyle ==
    /\ IdlePipeline /\ IdlePage /\ IdlePackage /\ IdleBatch /\ IdleInherit
    /\ styles \in StyleTables
    /\ style_cache = <<>>
    /\ lookups = 0
    /\ returned = <<>>

SpecStyle == InitStyle /\ [][GetStyle]_vars

\* positions of the styles that declare the outline level
WithOutlineLevel(level) == {k \in 1..Len(styles) : styles[k].outline_level = << level >>}

\* C11: when some style has outline level N-1, heading_N resolves to the
\* first such style in style-table order, whatever the styles are named, and
\* the name candidates are searched only when no style has that level.
C11_OutlineLevelFirst ==
    (returned # <<>> /\ returned[1].key.role = "heading") =>
        LET level == returned[1].key.level - 1
        IN  /\ WithOutlineLevel(level) # {} =>
                  /\ returned[1].style =
                        _style_info_to_mapped(styles[MinOf(WithOutlineLevel(level))])
                  /\ returned[1].searched \in {<<>>, <<"outline">>}
            /\ WithOutlineLevel(level) = {} =>
                  returned[1].searched \in {<<>>, <<"outline", "names">>}

\* heading_1 resolved to the second style of the table while the first one
\* is the one named "Heading 1"
C11_Witness ==
    /\ returned # <<>>
    /\ returned[1].key = StyleKey("heading", 1)
    /\ returned[1].searched = <<"outline">>
    /\ Len(styles) >= 2
    /\ styles[1].name = "Heading 1"
    /\ returned[1].style.style_id = styles[2].style_id

\* C12: a call of _get_style leaves in the cache the style it returns, and
\* a call for a key already in the cache returns the cached style without
\* searching the style table and without changing any cache entry.
C12_ResolveIdempotent ==
    [][returned' # <<>> =>
          LET key == returned'[1].key
          IN  /\ key \in DOMAIN style_cache'
              /\ style_cache'[key] = returned'[1].style
              /\ \A k \in DOMAIN style_cache :
                    k \in DOMAIN style_cache' /\ style_cache'[k] = style_cache[k]
              /\ key \in DOMAIN style_cache =>
                    /\ returned'[1].style = style_cache[key]
                    /\ returned'[1].searched = <<>>
                    /\ lookups' = lookups]_vars

\* a key resolved a second time, after another key was resolved
C12_Witness ==
    /\ returned # <<>>
    /\ returned[1].searched = <<>>
    /\ lookups >= 2
    /\ Cardinality(DOMAIN style_cache) >= 2

----------------------------------------------------------------------------
(* DocxComposer.compose on an arbitrary plan                               *)

\* paragraphs with and without tokens: one holds the same token twice,
\* the last three hold braces or brackets but no token
ComposeParagraphs ==
    ParagraphPool
    \cup { << BracedBody \o <<" ">> \o BracedBody >>,
           << <<"{", "{", "}", "}">> >>,
           << <<"x">>, <<"{", "B", "}">> >>,
           << <<"[", "[", "b", "]", "]">> >> }

ComposeHeaders == HeaderChoices \cup { << << <<"x">> >> >> }

ComposeBlocks ==
    { <<>>,
      << Block("paragraph", 0, <<"b">>) >>,
      << Block("heading", 1, <<"H">>), Block("paragraph", 0, <<"b">>) >> }

\* plans the composer may be handed: empty, rule-based and LLM-made
ComposePlans ==
    { ContentMappingPlan(<<>>, <<>>, <<>>, NoConfidence),
      ContentMappingPlan(<<>>, <<0>>, <<>>, NoConfidence),
      ContentMappingPlan(<< ContentMapping(BracedTitle, <<0>>) >>, <<1>>, <<>>,
                         AutoConfidence),
      ContentMappingPlan(<< ContentMapping(BracedBody, <<0, 1>>) >>, <<>>, <<>>,
                         AutoConfidence),
      ContentMappingPlan(<< ContentMapping(BracedTitle, <<0>>),
                            ContentMapping(BracedBody, <<1>>) >>, <<>>, <<>>,
                         AutoConfidence),
      ContentMappingPlan(<< ContentMapping(BracedBody, <<>>) >>, <<0>>, <<>>,
                         DefaultLLMConfidence),
      ContentMappingPlan(<< ContentMapping(BracketBody, <<0>>) >>, <<>>, <<>>,
                         DefaultLLMConfidence),
      ContentMappingPlan(<< ContentMapping(<<"x">>, <<0>>) >>, <<>>, <<>>,
                         DefaultLLMConfidence) }

InitCompose ==
    /\ IdleAnalysis
    /\ pc = "mapped"
    /\ placeholder_pattern = "default"
    /\ paragraphs \in SeqsUpTo(ComposeParagraphs, MaxParagraphs)
    /\ headers \in ComposeHeaders
    /\ placeholders = <<>>
    /\ raw_blocks \in ComposeBlocks
    /\ doc_info = EmptyDocInfo
    /\ use_llm = FALSE
    /\ requests = 0
    /\ llm_content = <<>>
    /\ raised = "none"
    /\ result \in { << plan >> : plan \in ComposePlans }

SpecCompose == InitCompose /\ [][Compose]_vars

\* the paragraph's text holds a token of one of the four lexical forms
HasToken(paragraph) ==
    \E name \in PatternNames : TokenOccurrences(ParagraphText(paragraph), name) # {}

NoTokenInDocument ==
    /\ \A k \in 1..Len(paragraphs) : ~ HasToken(paragraphs[k])
    /\ \A k \in 1..Len(headers) : ~ HasToken(headers[k])

\* C13: compose on a document whose body, header and footer paragraphs hold
\* no placeholder token adds no paragraph, removes none and changes no run's
\* text, whatever the plan and the content are.
C13_NoTokenNoChange ==
    [][(pc = "mapped" /\ NoTokenInDocument) =>
          (paragraphs' = paragraphs /\ headers' = headers)]_vars

\* composed: a document without tokens, a plan with a mapping, content
C13_Witness ==
    /\ pc = "done"
    /\ NoTokenInDocument
    /\ Len(paragraphs) >= 2
    /\ headers # <<>>
    /\ Plan.mappings # <<>>
    /\ Plan.unmapped_content # <<>>
    /\ raw_blocks # <<>>

----------------------------------------------------------------------------
(* src/src/template_page_analyzer.py : TemplatePageAnalyzer                *)
(*                                                                         *)
(* template_doc is a record: doc_styles, the style table of the document   *)
(* (name and style_id, both text), and doc_paragraphs, the top-level       *)
(* paragraphs.  A paragraph has a style id (0 or 1 element), its text and  *)
(* the kinds of <w:br> its runs hold ("line", "page").                     *)

MaxDocParagraphs == 6

LowerChar(c) ==
    CASE c = "T" -> "t" [] c = "O" -> "o" [] c = "C" -> "c"
      [] c = "N" -> "n" [] c = "H" -> "h" [] c = "S" -> "s"
      [] c = "W" -> "w" [] c = "E" -> "e"
      [] OTHER -> c

Lower(s) == [i \in 1..Len(s) |-> LowerChar(s[i])]

\* target_patterns; the Korean names are left out, no style of the
\* templates enumerated here carries one
TARGET_COVER ==
    { <<"t", "i", "t", "l", "e">>,
      <<"s", "u", "b", "t", "i", "t", "l", "e">>,
      <<"c", "o", "v", "e", "r", " ", "t", "i", "t", "l", "e">> }

TARGET_TOC ==
    { <<"t", "o", "c">>,
      <<"t", "a", "b", "l", "e", " ", "o", "f", " ", "c", "o", "n", "t", "e", "n", "t", "s">> }

TARGET_SECTION ==
    { <<"h", "e", "a", "d", "i", "n", "g", " ", "1">>,
      <<"p", "a", "r", "t", " ", "t", "i", "t", "l", "e">>,
      <<"s", "e", "c", "t", "i", "o", "n">> }

TARGET_BODY ==
    { <<"n", "o", "r", "m", "a", "l">>,
      <<"b", "o", "d", "y", " ", "t", "e", "x", "t">>,
      <<"l", "i", "s", "t", " ", "p", "a", "r", "a", "g", "r", "a", "p", "h">> }

DocStyle(name, style_id) == [name |-> name, style_id |-> style_id]

\* _discover_style_ids: the four sets of style ids
_discover_style_ids(doc_styles) ==
    LET named == {k \in 1..Len(doc_styles) :
                     doc_styles[k].name # <<>> /\ doc_styles[k].style_id # <<>>}
        ids(matches(_)) == {doc_styles[k].style_id : k \in {j \in named : matches(Lower(doc_styles[j].name))}}
        exact_cover(n) == n \in TARGET_COVER
        part_toc(n) == \E p \in TARGET_TOC : Contains(n, p)
        exact_section(n) == n \in TARGET_SECTION
        exact_body(n) == n \in TARGET_BODY
    IN  [cover_styles |-> ids(exact_cover), toc_styles |-> ids(part_toc),
         section_styles |-> ids(exact_section), body_styles |-> ids(exact_body)]

\* 'w:br' in xml and 'type="page"' in xml
_has_page_break(para) == para.breaks # {} /\ "page" \in para.breaks

RECURSIVE SplitFrom(_, _, _, _)
SplitFrom(paras, k, pages, current_page) ==
    IF k > Len(paras)
    THEN IF current_page # <<>> THEN Append(pages, current_page) ELSE pages
    ELSE IF _has_page_break(paras[k])
         THEN SplitFrom(paras, k + 1, Append(pages, Append(current_page, paras[k])), <<>>)
    ELSE SplitFrom(paras, k + 1, pages, Append(current_page, paras[k]))

_split_by_page_breaks(paras) == SplitFrom(paras, 1, <<>>, <<>>)

PageInfo(page_number, page_type, styles_used, paragraph_count) ==
    [page_number |-> page_number, page_type |-> page_type,
     styles_used |-> styles_used, paragraph_count |-> paragraph_count]

HasText(para) == Strip(para.text, {" "}) # <<>>

\* _analyze_page with the cover test left out of the precedence on no page
_analyze_page_CoverAnywhere(page_num, page_paragraphs, ids) ==
    LET styled == SelectSeq(page_paragraphs, LAMBDA p : p.style # <<>> /\ p.style[1] # <<>>)
        texts == SelectSeq(page_paragraphs, HasText)
        style_set == {styled[k].style[1] : k \in 1..Len(styled)}
        is_cover ==
            \/ style_set \cap ids.cover_styles # {}
            \/ Len(page_paragraphs) <= 5 /\ Len(texts) > 0
        has_section_header == style_set \cap ids.section_styles # {}
        body_style_count ==
            Len(SelectSeq(styled, LAMBDA p : p.style[1] \in ids.body_styles))
        page_type ==
            IF is_cover THEN "cover"
            ELSE IF style_set \cap ids.toc_styles # {} THEN "toc"
            ELSE IF has_section_header /\ body_style_count <= 2 /\ Len(texts) < 5
                 THEN "section"
            ELSE "body"
    IN  PageInfo(page_num, page_type, style_set, Len(page_paragraphs))

\* the type of one page: cover first, then toc, section, body
_analyze_page(page_num, page_paragraphs, ids) ==
    LET styled == SelectSeq(page_paragraphs, LAMBDA p : p.style # <<>> /\ p.style[1] # <<>>)
        texts == SelectSeq(page_paragraphs, HasText)
        style_set == {styled[k].style[1] : k \in 1..Len(styled)}
        is_cover ==
            /\ page_num = 0
            /\ \/ style_set \cap ids.cover_styles # {}
               \/ Len(page_paragraphs) <= 5 /\ Len(texts) > 0
        has_section_header == style_set \cap ids.section_styles # {}
        body_style_count ==
            Len(SelectSeq(styled, LAMBDA p : p.style[1] \in ids.body_styles))
        page_type ==
            IF is_cover THEN "cover"
            ELSE IF style_set \cap ids.toc_styles # {} THEN "toc"
            ELSE IF has_section_header /\ body_style_count <= 2 /\ Len(texts) < 5
                 THEN "section"
            ELSE "body"
    IN  PageInfo(page_num, page_type, style_set, Len(page_paragraphs))

TemplatePageStructure(pages, cover_page, toc_page, section_pages, body_start_page) ==
    [pages |-> pages, cover_page |-> cover_page, toc_page |-> toc_page,
     section_pages |-> section_pages, body_start_page |-> body_start_page]

\* the loop of analyze with the last page of a type recorded, not the first
RECURSIVE AnalyzeFrom_LastWins(_, _, _, _)
AnalyzeFrom_LastWins(paragraphs_by_page, k, ids, st) ==
    IF k > Len(paragraphs_by_page) THEN st
    ELSE LET info == _analyze_page(k - 1, paragraphs_by_page[k], ids)
             withPage == [st EXCEPT !.pages = Append(@, info)]
             indexed ==
                 IF info.page_type = "cover"
                 THEN [withPage EXCEPT !.cover_page = << k - 1 >>]
                 ELSE IF info.page_type = "toc"
                 THEN [withPage EXCEPT !.toc_page = << k - 1 >>]
                 ELSE IF info.page_type = "section"
                 THEN [withPage EXCEPT !.section_pages = Append(@, k - 1)]
                 ELSE IF info.page_type = "body"
                 THEN [withPage EXCEPT !.body_start_page = << k - 1 >>]
                 ELSE withPage
         IN  AnalyzeFrom_LastWins(paragraphs_by_page, k + 1, ids, indexed)

\* the loop of analyze over the pages, page_num = k - 1
RECURSIVE AnalyzeFrom(_, _, _, _)
AnalyzeFrom(paragraphs_by_page, k, ids, st) ==
    IF k > Len(paragraphs_by_page) THEN st
    ELSE LET info == _analyze_page(k - 1, paragraphs_by_page[k], ids)
             withPage == [st EXCEPT !.pages = Append(@, info)]
             indexed ==
                 IF info.page_type = "cover" /\ st.cover_page = <<>>
                 THEN [withPage EXCEPT !.cover_page = << k - 1 >>]
                 ELSE IF info.page_type = "toc" /\ st.toc_page = <<>>
                 THEN [withPage EXCEPT !.toc_page = << k - 1 >>]
                 ELSE IF info.page_type = "section"
                 THEN [withPage EXCEPT !.section_pages = Append(@, k - 1)]
                 ELSE IF info.page_type = "body" /\ st.body_start_page = <<>>
                 THEN [withPage EXCEPT !.body_start_page = << k - 1 >>]
                 ELSE withPage
         IN  AnalyzeFrom(paragraphs_by_page, k + 1, ids, indexed)

\* TemplatePageAnalyzer(docx_path).analyze()
TemplatePageAnalyzer_analyze(doc) ==
    AnalyzeFrom(_split_by_page_breaks(doc.doc_paragraphs), 1,
                _discover_style_ids(doc.doc_styles),
                TemplatePageStructure(<<>>, <<>>, <<>>, <<>>, <<>>))

DocParagraph(style, text, breaks) == [style |-> style, text |-> text, breaks |-> breaks]

DocParagraphPool ==
    { DocParagraph(<< <<"T">> >>, <<"x">>, {}),
      DocParagraph(<< <<"N">> >>, <<"x">>, {}),
      DocParagraph(<< <<"N">> >>, <<" ">>, {"line"}),
      DocParagraph(<< <<"N">> >>, <<>>, {"line", "page"}),
      DocParagraph(<< <<"H">> >>, <<"x">>, {}),
      DocParagraph(<< <<"C">> >>, <<"x">>, {}) }

\* two style tables: in the second one no style carries a cover name
DocStyleTables ==
    { << DocStyle(<<"T", "i", "t", "l", "e">>, <<"T">>),
         DocStyle(<<"N", "o", "r", "m", "a", "l">>, <<"N">>),
         DocStyle(<<"H", "e", "a", "d", "i", "n", "g", " ", "1">>, <<"H">>),
         DocStyle(<<"T", "O", "C", " ", "1">>, <<"C">>) >>,
      << DocStyle(<<"N", "o", "t", "e">>, <<"T">>),
         DocStyle(<<"N", "o", "r", "m", "a", "l">>, <<"N">>),
         DocStyle(<<"H", "e", "a", "d", "i", "n", "g", " ", "1">>, <<"H">>),
         DocStyle(<<"N", "o", "t", "e">>, <<"C">>) >> }

\* TemplatePageAnalyzer.analyze on the template
AnalyzePages ==
    /\ template_doc # <<>>
    /\ page_structure = <<>>
    /\ page_structure' = << TemplatePageAnalyzer_analyze(template_doc[1]) >>
    /\ UNCHANGED <<template_doc, PipelineVars, StyleVars, PackageVars, BatchVars, InheritVars>>

InitPages ==
    /\ IdlePipeline /\ IdleStyle /\ IdlePackage /\ IdleBatch /\ IdleInherit
    /\ \E t \in DocStyleTables, ps \in SeqsUpTo(DocParagraphPool, MaxDocParagraphs) :
          template_doc = << [doc_styles |-> t, doc_paragraphs |-> ps] >>
    /\ page_structure = <<>>

SpecPages == InitPages /\ [][AnalyzePages]_vars

NoHardPageBreak ==
    \A k \in 1..Len(template_doc[1].doc_paragraphs) :
        "page" \notin template_doc[1].doc_paragraphs[k].breaks

\* C14: a template whose paragraph sequence holds no hard page break is
\* classified as exactly one page, and that page is a cover only if one of
\* its paragraphs uses a discovered cover style or it has at most 5
\* paragraphs of which at least one is not blank.
C14_SinglePage ==
    (page_structure # <<>> /\ NoHardPageBreak) =>
        LET ps == template_doc[1].doc_paragraphs
            cover_styles == _discover_style_ids(template_doc[1].doc_styles).cover_styles
        IN  /\ Len(page_structure[1].pages) = 1
            /\ page_structure[1].pages[1].page_type = "cover" =>
                  \/ \E k \in 1..Len(ps) :
                        ps[k].style # <<>> /\ ps[k].style[1] \in cover_styles
                  \/ Len(ps) <= 5 /\ \E k \in 1..Len(ps) : HasText(ps[k])

----------------------------------------------------------------------------
(* Files written by a conversion                                           *)
(* src/pipeline.py : DocumentAutomationPipeline.process_async              *)
(* src/src/docx_composer.py : DocxComposer.__init__, DocxComposer.compose  *)
(* src/src/template_analyzer.py : DocxTemplateAnalyzer._extract_images     *)
(*                                                                         *)
(* conv maps a conversion to its position, its inputs (markup file,        *)
(* template, requested output path, 0 or 1 element) and the media of the   *)
(* template still to extract.  fs is the sequence of writes to the file    *)
(* system: path, writer, content.                                          *)

ConvIds == {1, 2}

\* a template file: its path and the names under word/media/ in the zip
Template(name, media) == [name |-> name, media |-> media]

TemplatePool ==
    { Template("t.docx", <<>>), Template("t.docx", <<"image1.png">>),
      Template("t.docx", <<"image1.png", "image2.png">>) }

OtherTemplate == Template("u.docx", <<"image1.png">>)

\* self.docx_path.parent / f"{self.docx_path.stem}_assets"
AssetsDir(template) == <<"assets", template.name>>

\* self.output_dir / os.path.basename(name)
AssetFile(template, image_name) == <<"assets", template.name, image_name>>

\* compose: output_dir / output_filename, or
\* output_dir / f"{template_path.stem}_output.docx" in the template's folder
OutputPath(c) ==
    IF c.output # <<>> THEN <<"file", c.output[1]>>
    ELSE <<"output", c.template.name>>

Conversion(markdown, template, output) ==
    [pc |-> "start", markdown |-> markdown, template |-> template,
     output |-> output, pending |-> <<>>]

Write(path, by, content) == [path |-> path, by |-> by, content |-> content]

ConvFrame == UNCHANGED <<PipelineVars, StyleVars, PageVars, PackageVars, InheritVars>>

\* steps 1 to 3 of process_async: parsing and mapping write no file
PrepareConversion ==
    /\ \E c \in DOMAIN conv :
          /\ conv[c].pc = "start"
          /\ conv' = [conv EXCEPT ![c].pc = "composer_init"]
    /\ UNCHANGED fs
    /\ ConvFrame

\* DocxComposer.__init__ -> analyze -> _extract_images: output_dir.mkdir
MakeAssetsDir ==
    /\ \E c \in DOMAIN conv :
          /\ conv[c].pc = "composer_init"
          /\ conv' = [conv EXCEPT ![c].pc = "extract_images",
                                  ![c].pending = conv[c].template.media]
          /\ fs' = Append(fs, Write(AssetsDir(conv[c].template), c, "directory"))
    /\ ConvFrame

\* _extract_images: one media file copied out of the zip
ExtractImage ==
    /\ \E c \in DOMAIN conv :
          /\ conv[c].pc = "extract_images"
          /\ conv[c].pending # <<>>
          /\ LET path == AssetFile(conv[c].template, Head(conv[c].pending))
             IN  /\ conv' = [conv EXCEPT ![c].pending = Tail(@)]
                 /\ fs' = Append(fs, Write(path, c, "image"))
    /\ ConvFrame

\* the analysis is over, compose starts
FinishAnalysis ==
    /\ \E c \in DOMAIN conv :
          /\ conv[c].pc = "extract_images"
          /\ conv[c].pending = <<>>
          /\ conv' = [conv EXCEPT ![c].pc = "copy_template"]
    /\ UNCHANGED fs
    /\ ConvFrame

\* compose: shutil.copy(self.template_path, output_path)
CopyTemplate ==
    /\ \E c \in DOMAIN conv :
          /\ conv[c].pc = "copy_template"
          /\ conv' = [conv EXCEPT ![c].pc = "substitute"]
          /\ fs' = Append(fs, Write(OutputPath(conv[c]), c, "template"))
    /\ ConvFrame

\* compose: placeholder substitution in body, headers and footers, in memory
Substitute ==
    /\ \E c \in DOMAIN conv :
          /\ conv[c].pc = "substitute"
          /\ conv' = [conv EXCEPT ![c].pc = "save"]
    /\ UNCHANGED fs
    /\ ConvFrame

\* compose: doc.save(str(output_path))
SaveDocument ==
    /\ \E c \in DOMAIN conv :
          /\ conv[c].pc = "save"
          /\ conv' = [conv EXCEPT ![c].pc = "done"]
          /\ fs' = Append(fs, Write(OutputPath(conv[c]), c, "composed"))
    /\ ConvFrame

BatchNext ==
    \/ PrepareConversion
    \/ MakeAssetsDir
    \/ ExtractImage
    \/ FinishAnalysis
    \/ CopyTemplate
    \/ Substitute
    \/ SaveDocument

\* two conversions of different markup files; each either names its own
\* output file or leaves the output path to the composer
InitBatch ==
    /\ IdlePipeline /\ IdleStyle /\ IdlePage /\ IdlePackage /\ IdleInherit
    /\ \E t \in TemplatePool, t2 \in TemplatePool \cup {OtherTemplate},
          o1 \in {<<>>, <<"a.docx">>}, o2 \in {<<>>, <<"b.docx">>} :
          /\ t2 \in {t, OtherTemplate}
          /\ conv = [c \in ConvIds |->
                        IF c = 1 THEN Conversion("a.md", t, o1)
                        ELSE Conversion("b.md", t2, o2)]
    /\ fs = <<>>

SpecBatch == InitBatch /\ [][BatchNext]_vars

\* the writes conversion c made to its output path
OutputWrites(c) ==
    SelectSeq(fs, LAMBDA w : w.by = c /\ w.path = OutputPath(conv[c]))

\* C15: a conversion writes its output path exactly once, as the last step
\* of compose, after the substitution in body, headers and footers.
C15_OutputWrittenOnce ==
    \A c \in DOMAIN conv :
        /\ Len(OutputWrites(c)) <= 1
        /\ conv[c].pc = "done" => Len(OutputWrites(c)) = 1
        /\ OutputWrites(c) # <<>> => conv[c].pc = "done"

\* the files conversion c has written (creating a directory that may
\* already exist writes no file)
FilesWritten(c) ==
    { fs[i].path : i \in { j \in DOMAIN fs : fs[j].by = c /\ fs[j].content # "directory" } }

\* C16: two concurrent conversions of different markup files with the same
\* template write disjoint sets of paths.
C16_DisjointWrites ==
    (/\ conv # <<>>
     /\ conv[1].markdown # conv[2].markdown
     /\ conv[1].template = conv[2].template)
    => FilesWritten(1) \cap FilesWritten(2) = {}

----------------------------------------------------------------------------
(* The styles part of a package                                            *)
(* src/src/template_analyzer.py : DocxTemplateAnalyzer._load_xml_trees,    *)
(*                                 _find_styles_xml_via_rels               *)
(*                                                                         *)
(* A part name is the sequence of its path segments.  package holds the    *)
(* target of the officeDocument relationship of _rels/.rels (main), the    *)
(* names of the candidate style parts in the zip (parts) and, per part,    *)
(* the relationships of its .rels file (rels): the file                    *)
(* <dir>/_rels/<name>.rels is in the zip iff the part is in DOMAIN rels.   *)
(* A relationship has the last segment of its Type URI, as characters,     *)
(* and a Target: absolute (leading "/") or relative, and its segments.     *)
(* styles_part is <<>> before the load and <<r>> after it, r being the     *)
(* part read into _styles_xml, <<>> for none.                              *)

MaxRels == 2

DEFAULT_DOCUMENT == <<"word", "document.xml">>

STYLES == <<"s", "t", "y", "l", "e", "s">>

STYLES_WITH_EFFECTS ==
    <<"s", "t", "y", "l", "e", "s", "W", "i", "t", "h", "E", "f", "f", "e", "c", "t", "s">>

THEME == <<"t", "h", "e", "m", "e">>

Target(absolute, segs) == [absolute |-> absolute, segs |-> segs]

Relationship(type, target) == [type |-> type, target |-> target]

\* Python: target.lstrip('../') on a path without a leading "/": the
\* leading ".." and "." segments go
RECURSIVE DropDots(_)
DropDots(segs) ==
    IF segs # <<>> /\ Head(segs) \in {"..", "."} THEN DropDots(Tail(segs)) ELSE segs

\* the path the code looks up for one Target: lstrip('/'), kept when it
\* starts with 'word/', else stripped of leading dots and put under word/
NormalizeTarget(target) ==
    LET stripped == target.segs
    IN  IF Len(stripped) > 1 /\ Head(stripped) = "word" THEN stripped
        ELSE <<"word">> \o DropDots(stripped)

\* the result is <<path>> or <<>> (None)
_find_styles_xml_via_rels(pkg) ==
    IF DEFAULT_DOCUMENT \notin DOMAIN pkg.rels THEN <<>>
    ELSE LET rels == pkg.rels[DEFAULT_DOCUMENT]
             hits == {k \in 1..Len(rels) :
                         /\ Contains(Lower(rels[k].type), STYLES)
                         /\ rels[k].target.segs # <<>>
                         /\ NormalizeTarget(rels[k].target) \in pkg.parts}
         IN  IF hits = {} THEN <<>>
             ELSE <<NormalizeTarget(rels[MinOf(hits)].target)>>

\* the part parsed into self._styles_xml
_load_xml_trees(pkg) ==
    LET styles_path == _find_styles_xml_via_rels(pkg)
    IN  IF styles_path # <<>> THEN styles_path
        ELSE IF <<"word", "styles.xml">> \in pkg.parts THEN <<<<"word", "styles.xml">>>>
        ELSE IF <<"word", "styles2.xml">> \in pkg.parts THEN <<<<"word", "styles2.xml">>>>
        ELSE <<>>

Package(main, parts, rels) ==
    [main |-> main, parts |-> parts, rels |-> [p \in {main} |-> rels]]

MainParts == {DEFAULT_DOCUMENT, <<"doc", "main.xml">>}

StylePartPool ==
    { <<"word", "styles.xml">>, <<"word", "styles2.xml">>,
      <<"doc", "styles.xml">>, <<"styles.xml">> }

TargetPool ==
    { Target(FALSE, <<"styles.xml">>), Target(FALSE, <<"styles2.xml">>),
      Target(FALSE, <<"..", "styles.xml">>),
      Target(TRUE, <<"word", "styles.xml">>), Target(TRUE, <<"doc", "styles.xml">>) }

RelationshipPool ==
    { Relationship(type, target) : type \in {STYLES, STYLES_WITH_EFFECTS, THEME},
                                   target \in TargetPool }

RelationshipLists ==
    UNION { [1..n -> RelationshipPool] : n \in 0..MaxRels }

LoadXmlTrees ==
    /\ package # <<>>
    /\ styles_part = <<>>
    /\ styles_part' = <<_load_xml_trees(package)>>
    /\ UNCHANGED <<package, PipelineVars, StyleVars, PageVars, BatchVars, InheritVars>>

InitRels ==
    /\ IdlePipeline /\ IdleStyle /\ IdlePage /\ IdleBatch /\ IdleInherit
    /\ \E main \in MainParts, parts \in SUBSET StylePartPool,
          rels \in RelationshipLists :
          package = Package(main, parts, rels)
    /\ styles_part = <<>>

SpecRels == InitRels /\ [][LoadXmlTrees]_vars

\* a path with its ".." segments resolved
RECURSIVE Resolved(_, _)
Resolved(done, rest) ==
    IF rest = <<>> THEN done
    ELSE IF Head(rest) = ".."
         THEN Resolved(IF done = <<>> THEN <<>> ELSE SubSeq(done, 1, Len(done) - 1), Tail(rest))
         ELSE Resolved(Append(done, Head(rest)), Tail(rest))

\* the part a Target names, seen from the part that owns the relationship
TargetPart(owner, target) ==
    IF target.absolute THEN target.segs
    ELSE Resolved(<<>>, SubSeq(owner, 1, Len(owner) - 1) \o target.segs)

\* the part named by the first styles-typed relationship of the main
\* document part, <<>> when it has none
StylesPartByRelationships(pkg) ==
    LET rels == pkg.rels[pkg.main]
        typed == {k \in 1..Len(rels) : rels[k].type = STYLES}
    IN  IF typed = {} THEN <<>>
        ELSE <<TargetPart(pkg.main, rels[MinOf(typed)].target)>>

\* C17: the styles part loaded is the part named by the styles-typed
\* relationship of the main document part, the main part being the one the
\* package-level relationships name and relative targets resolved against
\* its directory, also when the main part is not at the default path.
C17_StylesViaRelationships ==
    (/\ styles_part # <<>>
     /\ StylesPartByRelationships(package) # <<>>
     /\ StylesPartByRelationships(package)[1] \in package.parts)
    => styles_part[1] = StylesPartByRelationships(package)

----------------------------------------------------------------------------
(* Style inheritance                                                       *)
(* src/src/template_analyzer.py : DocxTemplateAnalyzer                     *)
(*                                ._resolve_style_inheritance              *)
(*                                                                         *)
(* A parsed style has style_id, base_style and the attributes font_name,   *)
(* bold and outline_level, each 0 or 1 element.  font_name and bold stand  *)
(* for the nine attributes of attrs_to_inherit, outline_level for the      *)
(* attributes outside that list.  inherit holds the table as parsed        *)
(* (parsed), the table being resolved in place (styles), the position of   *)
(* the two loops (k, a) and, during a lookup, the style id the next call   *)
(* of get_inherited_value receives (cur) with its visited set.             *)

MaxInheritStyles == 3

ParsedStyle(style_id, base_style, font_name, bold, outline_level) ==
    [style_id |-> style_id, base_style |-> base_style, font_name |-> font_name,
     bold |-> bold, outline_level |-> outline_level]

attrs_to_inherit_WithOutline == <<"font_name", "bold", "outline_level">>

attrs_to_inherit == <<"font_name", "bold">>

\* self.structure.styles.get(style_id): position in the table, 0 for None
StylePos(table, style_id) ==
    IF \E k \in 1..Len(table) : table[k].style_id = style_id
    THEN CHOOSE k \in 1..Len(table) : table[k].style_id = style_id
    ELSE 0

Returns(value) == [returns |-> TRUE, value |-> value, next |-> "", visited |-> {}]

Recurses(style_id, visited) ==
    [returns |-> FALSE, value |-> <<>>, next |-> style_id, visited |-> visited]

get_inherited_value_NoVisited(table, style_id, attr, visited) ==
    LET pos == StylePos(table, style_id)
    IN  IF pos = 0 THEN Returns(<<>>)
        ELSE IF table[pos][attr] # <<>> THEN Returns(table[pos][attr])
        ELSE IF table[pos].base_style # <<>>
             THEN Recurses(table[pos].base_style[1], visited \cup {style_id})
        ELSE Returns(<<>>)

\* one call of get_inherited_value: it returns a value (<<>> for None) or
\* calls itself on the base style
get_inherited_value(table, style_id, attr, visited) ==
    IF style_id \in visited THEN Returns(<<>>)
    ELSE LET pos == StylePos(table, style_id)
         IN  IF pos = 0 THEN Returns(<<>>)
             ELSE IF table[pos][attr] # <<>> THEN Returns(table[pos][attr])
             ELSE IF table[pos].base_style # <<>>
                  THEN Recurses(table[pos].base_style[1], visited \cup {style_id})
             ELSE Returns(<<>>)

\* the two for loops move on to the next attribute or the next style
Advance(st) ==
    IF st.a < Len(attrs_to_inherit)
    THEN [st EXCEPT !.pc = "scan", !.a = st.a + 1, !.cur = "", !.visited = {}]
    ELSE [st EXCEPT !.pc = "scan", !.k = st.k + 1, !.a = 1, !.cur = "", !.visited = {}]

InheritFrame == UNCHANGED <<PipelineVars, StyleVars, PageVars, PackageVars, BatchVars>>

\* loop body: `if getattr(style, attr) is None and style.base_style`
ScanAttribute ==
    /\ inherit # <<>>
    /\ inherit.pc = "scan"
    /\ inherit.k <= Len(inherit.styles)
    /\ LET style == inherit.styles[inherit.k]
           attr == attrs_to_inherit[inherit.a]
       IN  inherit' =
             IF style[attr] = <<>> /\ style.base_style # <<>>
             THEN [inherit EXCEPT !.pc = "lookup", !.cur = style.base_style[1],
                                  !.visited = {}]
             ELSE Advance(inherit)
    /\ InheritFrame

\* one call of get_inherited_value; on return, setattr when not None
GetInheritedValue ==
    /\ inherit # <<>>
    /\ inherit.pc = "lookup"
    /\ LET attr == attrs_to_inherit[inherit.a]
           r == get_inherited_value(inherit.styles, inherit.cur, attr, inherit.visited)
       IN  inherit' =
             IF r.returns
             THEN IF r.value # <<>>
                  THEN Advance([inherit EXCEPT !.styles[inherit.k][attr] = r.value])
                  ELSE Advance(inherit)
             ELSE [inherit EXCEPT !.cur = r.next, !.visited = r.visited]
    /\ InheritFrame

\* both loops are over
FinishInheritance ==
    /\ inherit # <<>>
    /\ inherit.pc = "scan"
    /\ inherit.k > Len(inherit.styles)
    /\ inherit' = [inherit EXCEPT !.pc = "done"]
    /\ InheritFrame

InheritNext ==
    \/ ScanAttribute
    \/ GetInheritedValue
    \/ FinishInheritance

StyleIds == <<"a", "b", "c", "d">>

\* what a <w:style> element may say: (font_name, bold, outline_level)
AttributePool ==
    { <<<<>>, <<>>, <<>>>>, <<<<"Arial">>, <<>>, <<0>>>>,
      <<<<"Batang">>, <<TRUE>>, <<1>>>> }

\* w:basedOn of the k-th of n styles: none, itself, the next style of the
\* table (the first one after the last) or an id no style has
BasePool(k, n) ==
    { <<>>, <<StyleIds[k]>>, <<StyleIds[(k % n) + 1]>>, <<"undefined">> }

AllBases == {<<>>, <<"undefined">>} \cup { <<StyleIds[k]>> : k \in 1..Len(StyleIds) }

TablesOf(n) ==
    { [k \in 1..n |-> ParsedStyle(StyleIds[k], b[k], at[k][1], at[k][2], at[k][3])] :
        b \in { f \in [1..n -> AllBases] : \A j \in 1..n : f[j] \in BasePool(j, n) },
        at \in [1..n -> AttributePool] }

ParsedTables == {<<>>} \cup UNION { TablesOf(n) : n \in 1..MaxInheritStyles }

InitInherit ==
    /\ IdlePipeline /\ IdleStyle /\ IdlePage /\ IdlePackage /\ IdleBatch
    /\ \E table \in ParsedTables :
          inherit = [pc |-> "scan", parsed |-> table, styles |-> table,
                     k |-> 1, a |-> 1, cur |-> "", visited |-> {}]

SpecInherit == InitInherit /\ [][InheritNext]_vars

\* the interpreter runs the method until it returns
SpecInheritLive == SpecInherit /\ WF_vars(InheritNext)

InheritanceDone == inherit # <<>> /\ inherit.pc = "done"

\* the value the nearest style on the chain starting at style_id set for
\* attr in the table as parsed, <<>> when the chain ends, leaves the table
\* or comes back to a style without one
RECURSIVE NearestSet(_, _, _, _)
NearestSet(table, style_id, attr, fuel) ==
    IF fuel = 0 \/ StylePos(table, style_id) = 0 THEN <<>>
    ELSE LET style == table[StylePos(table, style_id)]
         IN  IF style[attr] # <<>> THEN style[attr]
             ELSE IF style.base_style = <<>> THEN <<>>
             ELSE NearestSet(table, style.base_style[1], attr, fuel - 1)

\* own value, else the value of the nearest base style that set it
ResolvedValue(table, k, attr) ==
    IF table[k][attr] # <<>> THEN table[k][attr]
    ELSE IF table[k].base_style = <<>> THEN <<>>
    ELSE NearestSet(table, table[k].base_style[1], attr, Len(table))

\* the first style of the table whose resolved outline level is level
FirstResolvedLevel(table, level) ==
    LET at == {k \in 1..Len(table) : ResolvedValue(table, k, "outline_level") = <<level>>}
    IN  IF at = {} THEN <<>> ELSE <<table[MinOf(at)].style_id>>

\* C21: after the analysis, get_style_by_outline_level(n) is the first
\* style, in table order, whose outline level resolved through the
\* base-style chain is n; a style without a level of its own counts with
\* the level its chain declares.
C21_ResolvedOutlineLevel ==
    InheritanceDone =>
        \A level \in {0, 1} :
            LET found == get_style_by_outline_level(inherit.styles, level)
            IN  (IF found = <<>> THEN <<>> ELSE <<found[1].style_id>>)
                    = FirstResolvedLevel(inherit.parsed, level)

\* C22: after the resolution every style has, for each attribute of the
\* allowlist, its own value when it set one, else the value of the nearest
\* style on its base chain that set it, else none; the attributes outside
\* the allowlist are as parsed.
C22_InheritanceResolved ==
    InheritanceDone =>
        /\ Len(inherit.styles) = Len(inherit.parsed)
        /\ \A k \in 1..Len(inherit.parsed) :
              /\ \A attr \in {"font_name", "bold"} :
                    inherit.styles[k][attr] = ResolvedValue(inherit.parsed, k, attr)
              /\ \A attr \in {"style_id", "base_style", "outline_level"} :
                    inherit.styles[k][attr] = inherit.parsed[k][attr]

\* a style took a value from the base of its base
C22_Witness ==
    /\ InheritanceDone
    /\ Len(inherit.parsed) = 3
    /\ inherit.parsed[1].font_name = <<>>
    /\ inherit.parsed[2].font_name = <<>>
    /\ inherit.parsed[1].base_style = <<"b">>
    /\ inherit.parsed[2].base_style = <<"c">>
    /\ inherit.styles[1].font_name = <<"Arial">>
    /\ inherit.parsed[1].outline_level = <<>>
    /\ inherit.parsed[3].outline_level = <<0>>

\* a call of get_inherited_value on a visited style returns None: the
\* lookup is over and the table is as before
VisitedEndsLookup ==
    (inherit # <<>> /\ inherit.pc = "lookup" /\ inherit.cur \in inherit.visited)
    => (inherit'.pc = "scan" /\ inherit'.styles = inherit.styles)

\* C23: the resolution ends for every table, with base-style loops and
\* undefined base ids; a lookup that comes back to a visited style ends
\* with no value.
C23_Terminates == [][VisitedEndsLookup]_vars /\ <>InheritanceDone

\* a lookup has walked a loop of two styles back to its start
C23_Witness ==
    /\ inherit # <<>>
    /\ inherit.pc = "lookup"
    /\ inherit.cur \in inherit.visited
    /\ inherit.visited = {"a", "b"}

----------------------------------------------------------------------------
(* Where compose puts the blocks of a multi-block mapping                  *)
(* (checked under SpecCompose)                                             *)

\* the tokens the composer finds in body paragraph k
MatchesAt(k) == FindIter(ParagraphText(paragraphs[k]), ComposerPattern)

\* the blocks the plan maps to a token
MappedBlocks(placeholder_id) ==
    LET mapping == get_mapping_for_placeholder(Plan, placeholder_id)
    IN  IF mapping = <<>> THEN <<>>
        ELSE ResolveBlocks(mapping[1].content_block_indices, raw_blocks)

\* the paragraphs made for the blocks after the first
FollowingParagraphs(mapped) ==
    Concat([j \in 1..(Len(mapped) - 1) |-> InsertedParagraphs(mapped[j + 1])])

\* paragraph k holds tokens, all the same one, whole in one run and mapped
\* to more than one block, and no other body paragraph holds a token
OnlyMultiBlockAt(k) ==
    /\ MatchesAt(k) # <<>>
    /\ \A j \in 1..Len(MatchesAt(k)) : MatchesAt(k)[j].group0 = MatchesAt(k)[1].group0
    /\ \E r \in 1..Len(paragraphs[k]) : Contains(paragraphs[k][r], MatchesAt(k)[1].group0)
    /\ Len(MappedBlocks(MatchesAt(k)[1].group0)) > 1
    /\ \A j \in (1..Len(paragraphs)) \ {k} : MatchesAt(j) = <<>>

\* C24: when a body token maps to more than one block, after compose its
\* paragraph carries the first block's text and the paragraphs made for the
\* other blocks follow it at once, in plan order, ahead of the paragraphs
\* that followed it in the template.
C24_BlocksFollowPlaceholder ==
    [][pc = "mapped" =>
          \A k \in 1..Len(paragraphs) :
              (OnlyMultiBlockAt(k) /\ Len(MatchesAt(k)) = 1) =>
                  LET mapped == MappedBlocks(MatchesAt(k)[1].group0)
                      added == FollowingParagraphs(mapped)
                  IN  paragraphs' =
                          SubSeq(paragraphs, 1, k - 1)
                          \o << _replace_text_in_paragraph(paragraphs[k], MatchesAt(k)[1].group0,
                                                           _get_block_text(mapped[1])) >>
                          \o added
                          \o SubSeq(paragraphs, k + 1, Len(paragraphs))]_vars

\* C30: when a paragraph holds the same token twice and the token maps to
\* more than one block, compose makes the paragraphs for the blocks after
\* the first once, not once per match.
C30_InsertedOncePerParagraph ==
    [][pc = "mapped" =>
          \A k \in 1..Len(paragraphs) :
              (OnlyMultiBlockAt(k) /\ Len(MatchesAt(k)) > 1) =>
                  Len(paragraphs') = Len(paragraphs)
                      + Len(FollowingParagraphs(MappedBlocks(MatchesAt(k)[1].group0)))]_vars

----------------------------------------------------------------------------
(* Mappings the composer can find (checked under SpecMap)                  *)

\* the indices the composer resolves for the placeholder id of mapping m:
\* those of the first mapping of the plan with that id
IndicesFoundFor(m) ==
    SeqToSet(get_mapping_for_placeholder(Plan, m.placeholder_id)[1].content_block_indices)

\* C29: in a rule-based plan no two mappings carry the same placeholder
\* id, so every block index placed in a mapping is in the mapping the
\* composer's lookup by id returns, also when a token occurs more than once
\* in the template.
C29_MappingsFoundById ==
    RuleBasedDone =>
        /\ \A j, k \in 1..Len(Plan.mappings) :
              j # k => Plan.mappings[j].placeholder_id # Plan.mappings[k].placeholder_id
        /\ \A k \in 1..Len(Plan.mappings) :
              SeqToSet(Plan.mappings[k].content_block_indices)
                  \subseteq IndicesFoundFor(Plan.mappings[k])

----------------------------------------------------------------------------
(* Confidence of the rule-based plan (checked under SpecMap)               *)

\* the plan was made by _create_mapping_auto: the early returns of
\* create_mapping_plan leave a warning, the rule-based engine leaves none
MadeByRules == RuleBasedDone /\ Plan.warnings = <<>>

\* C28: the confidence of a rule-based plan is 0.7 exactly when it has at
\* least one mapping and 0.0 otherwise; every TOC placeholder has a mapping
\* with an empty index list, which counts as a mapping.
C28_RuleConfidence ==
    MadeByRules =>
        /\ Plan.confidence = (IF Plan.mappings # <<>> THEN AutoConfidence ELSE NoConfidence)
        /\ AutoConfidence # NoConfidence
        /\ \A k \in 1..Len(placeholders) :
              placeholders[k].placeholder_type = "toc" =>
                  \E j \in 1..Len(Plan.mappings) :
                      /\ Plan.mappings[j].placeholder_id = placeholders[k].id
                      /\ Plan.mappings[j].content_block_indices = <<>>

\* a TOC placeholder alone, content present: one empty mapping, 0.7
C28_Witness ==
    /\ MadeByRules
    /\ Len(placeholders) = 1
    /\ placeholders[1].placeholder_type = "toc"
    /\ raw_blocks # <<>>
    /\ Len(Plan.mappings) = 1
    /\ Plan.mappings[1].content_block_indices = <<>>
    /\ Plan.confidence = AutoConfidence
    /\ Plan.unmapped_content # <<>>

----------------------------------------------------------------------------
(* The page roles of the style mapper (checked under SpecStyle)            *)

RoleOutlineLevel(role) == IF role \in {"title", "section_number"} THEN 0 ELSE 1

RoleNames(role) ==
    CASE role = "title" -> <<"Title", "af0">>
      [] role = "subtitle" -> <<"Subtitle", "ae">>
      [] role = "section_number" -> <<"heading 1", "Heading 1">>
      [] OTHER -> <<"Subtitle", "ae", "heading 2">>

\* C27: for title, subtitle, section_title and section_number the mapper
\* tries the outline level first (0 for title and section_number, 1 for
\* subtitle and section_title) and uses the name candidates of the role
\* only when no style has that level.
C27_RolesByOutlineLevel ==
    (/\ returned # <<>>
     /\ returned[1].key.role \in {"title", "subtitle", "section_title", "section_number"}
     /\ returned[1].searched # <<>>)
    => LET level == RoleOutlineLevel(returned[1].key.role)
       IN  IF WithOutlineLevel(level) # {}
           THEN /\ returned[1].style =
                      _style_info_to_mapped(styles[MinOf(WithOutlineLevel(level))])
                /\ returned[1].searched = <<"outline">>
           ELSE /\ returned[1].style = _find_best_style(styles, RoleNames(returned[1].key.role))
                /\ returned[1].searched = <<"outline", "names">>

----------------------------------------------------------------------------
(* Page types and the page index (checked under SpecPages)                 *)

Analyzed == page_structure # <<>>

PagesOf == _split_by_page_breaks(template_doc[1].doc_paragraphs)

DiscoveredIds == _discover_style_ids(template_doc[1].doc_styles)

\* the style ids on a page, the count of its paragraphs with text and of
\* its paragraphs in a body style
PageStyleIds(page) ==
    {page[j].style[1] : j \in {i \in 1..Len(page) : page[i].style # <<>> /\ page[i].style[1] # <<>>}}

NonEmptyCount(page) == Cardinality({j \in 1..Len(page) : HasText(page[j])})

BodyStyleCount(page) ==
    Cardinality({j \in 1..Len(page) :
                    /\ page[j].style # <<>>
                    /\ page[j].style[1] \in DiscoveredIds.body_styles})

CoverCase(index, page) ==
    /\ index = 0
    /\ \/ PageStyleIds(page) \cap DiscoveredIds.cover_styles # {}
       \/ Len(page) <= 5 /\ NonEmptyCount(page) >= 1

TocCase(page) == PageStyleIds(page) \cap DiscoveredIds.toc_styles # {}

SectionCase(page) ==
    /\ PageStyleIds(page) \cap DiscoveredIds.section_styles # {}
    /\ NonEmptyCount(page) < 5
    /\ BodyStyleCount(page) <= 2

TypeByPrecedence(index, page) ==
    IF CoverCase(index, page) THEN "cover"
    ELSE IF TocCase(page) THEN "toc"
    ELSE IF SectionCase(page) THEN "section"
    ELSE "body"

\* C25: every page has exactly one type, by the precedence cover (page 0
\* only: a cover style id, or at most 5 paragraphs with one not empty), toc
\* (a toc style id), section (a section style id, fewer than 5 non-empty
\* paragraphs, at most 2 body-style paragraphs), body; a page after the
\* first is never a cover.
C25_PageTypePrecedence ==
    Analyzed =>
        /\ Len(page_structure[1].pages) = Len(PagesOf)
        /\ \A k \in 1..Len(PagesOf) :
              /\ page_structure[1].pages[k].page_type = TypeByPrecedence(k - 1, PagesOf[k])
              /\ k > 1 => page_structure[1].pages[k].page_type # "cover"

\* pages typed cover, toc and section in one template, and a page after
\* the first that holds a cover style
C25_Witness ==
    /\ Analyzed
    /\ Len(page_structure[1].pages) >= 3
    /\ page_structure[1].pages[1].page_type = "cover"
    /\ \E k \in 2..Len(PagesOf) :
          /\ page_structure[1].pages[k].page_type = "toc"
          /\ PageStyleIds(PagesOf[k]) \cap DiscoveredIds.cover_styles # {}
    /\ \E k \in 2..Len(PagesOf) : page_structure[1].pages[k].page_type = "section"

\* the indices of the pages of a type, page indices from 0
PagesTyped(type) ==
    {k - 1 : k \in {j \in 1..Len(page_structure[1].pages) :
                       page_structure[1].pages[j].page_type = type}}

FirstTyped(type) == IF PagesTyped(type) = {} THEN <<>> ELSE << MinOf(PagesTyped(type)) >>

\* C26: after analyze, cover_page, toc_page and body_start_page are unset
\* or the lowest index of a page of their type, and section_pages is the
\* ascending list of the indices of all section pages.
C26_FirstOccurrenceWins ==
    Analyzed =>
        /\ page_structure[1].cover_page = FirstTyped("cover")
        /\ page_structure[1].toc_page = FirstTyped("toc")
        /\ page_structure[1].body_start_page = FirstTyped("body")
        /\ SeqToSet(page_structure[1].section_pages) = PagesTyped("section")
        /\ Len(page_structure[1].section_pages) = Cardinality(PagesTyped("section"))
        /\ \A j \in 1..(Len(page_structure[1].section_pages) - 1) :
              page_structure[1].section_pages[j] < page_structure[1].section_pages[j + 1]

\* no cover, a body page first, then two toc pages: the first is recorded
C26_Witness ==
    /\ Analyzed
    /\ Cardinality(PagesTyped("toc")) >= 2
    /\ page_structure[1].toc_page = << MinOf(PagesTyped("toc")) >>
    /\ page_structure[1].toc_page # <<0>>
    /\ page_structure[1].cover_page = <<>>
    /\ page_structure[1].body_start_page = <<0>>

====
